---- MODULE Spec2Model ----
(***************************************************************************)
(* Model of the SENTINEL GRID workshop core: the command evaluator         *)
(* (workshop/command_evaluator.py), its state normalizer and metric        *)
(* calculators, and the command execution layer (workshop/command.py).     *)
(*                                                                         *)
(* Python floats are modelled as exact rationals <<n, d>> in lowest terms  *)
(* with d > 0, so that every comparison below is the comparison of the     *)
(* real numbers the code computes with.  Python values whose type matters  *)
(* (command parameters, raw state fields) are tagged records:              *)
(*   [num |-> r]   int/float      [str |-> s]   str                        *)
(*   [bool |-> b]  bool           [none |-> TRUE]  None                    *)
(* A Python dict is a function whose DOMAIN is its key set.                *)
(***************************************************************************)
EXTENDS Integers, Sequences, FiniteSets, TLC

VARIABLES
    cmd1,                 \* _commands_match: the issued command
    cmd2,                 \* _commands_match: the optimal command
    matched,              \* _commands_match: the outcome of the call
    state,                \* metric calculators: the normalized state they read
    metrics,              \* metric calculators: name -> value of the last calculation
    lastPower,            \* metric calculators: load ratio and power_conservation of the calculation before
    raw,                  \* _normalize_state: the raw state handed in
    norm1,                \* _normalize_state(raw)
    norm2,                \* _normalize_state(_normalize_state(raw))
    command,              \* CommandExecutor.execute: the Command
    execResult,           \* CommandExecutor.execute: CommandResult, or the exception that left it
    sent,                 \* CommandExecutor.execute: the HTTP requests sent, each with the service's answer
    issued,               \* evaluate_scenario_commands: commands
    scenario,             \* evaluate_scenario_commands: scenario_definition
    curState,             \* evaluate_scenario_commands: current_state
    evalResult,           \* evaluate_scenario_commands: the dict returned, or the exception raised
    tasks,                \* convert_agent_results_to_commands: crew_result
    converted,            \* convert_agent_results_to_commands: the list of Commands returned
    agentOut,             \* extract_commands_from_output: agent_output
    extracted,            \* extract_commands_from_output: the list returned, or the exception raised
    ctorArgs,             \* Command(**data): the keyword arguments
    constructed,          \* Command(**data): the Command built, or the validation error raised
    emergency_incidents,  \* emergency_api: the global emergency_incidents
    drone_fleet,          \* emergency_api: the global drone_fleet
    otherServices,        \* what the grid and traffic services answer to /state/get
    acceptedCount,        \* emergency_api: how many requests were answered with 200
    firstAccepted,        \* emergency_api: the endpoint of the first request answered with 200
    evaluations,          \* the metrics of each fetch and evaluation, with the requests accepted before it
    grid_zones,           \* grid_api: the global grid_zones
    critical_infrastructure, \* grid_api: the global critical_infrastructure
    traffic_sectors,      \* traffic_api: the global traffic_sectors
    served,               \* grid and traffic services: the requests handled, each with its status code and the state before it
    initial_state,        \* activate_scenario: the scenario's initial_state being activated
    activated,            \* activate_scenario: what activate_scenario returned, and on which route
    system_status         \* the normalized snapshot of get_system_status


vars == <<cmd1, cmd2, matched, state, metrics, lastPower, raw, norm1, norm2,
          command, execResult, sent, issued, scenario, curState, evalResult,
          tasks, converted, agentOut, extracted,
          ctorArgs, constructed,
          emergency_incidents, drone_fleet, otherServices, acceptedCount, firstAccepted, evaluations,
          grid_zones, critical_infrastructure, traffic_sectors, served,
          initial_state, activated, system_status>>

matchVars == <<cmd1, cmd2, matched>>
metricVars == <<state, metrics, lastPower>>
normVars == <<raw, norm1, norm2>>
execVars == <<command, execResult, sent>>
evalVars == <<issued, scenario, curState, evalResult>>
convVars == <<tasks, converted, agentOut, extracted>>
ctorVars == <<ctorArgs, constructed>>
svcVars == <<emergency_incidents, drone_fleet, otherServices, acceptedCount, firstAccepted, evaluations>>
cityVars == <<grid_zones, critical_infrastructure, traffic_sectors, served>>
actVars == <<initial_state, activated, system_status>>

Idle == "idle"

\* the outcome of a call: not made yet, returned a value, or left by an exception
NotRun == [done |-> FALSE]
Returned(v) == [done |-> TRUE, value |-> v]
Raised(e) == [done |-> TRUE, raised |-> e]
HasReturned(r) == "value" \in DOMAIN r
HasRaised(r) == "raised" \in DOMAIN r

-----------------------------------------------------------------------------
(* Exact arithmetic for Python floats.                                     *)

Abs(x) == IF x < 0 THEN -x ELSE x

RECURSIVE GCD(_, _)
GCD(a, b) == IF b = 0 THEN a ELSE GCD(b, a % b)

Rat(n, d) ==
    LET s == IF d < 0 THEN -1 ELSE 1
        g == GCD(Abs(n), Abs(d))
    IN  <<(s * n) \div g, (s * d) \div g>>

Whole(n) == <<n, 1>>
RAdd(a, b) == Rat(a[1] * b[2] + b[1] * a[2], a[2] * b[2])
RSub(a, b) == Rat(a[1] * b[2] - b[1] * a[2], a[2] * b[2])
RMul(a, b) == Rat(a[1] * b[1], a[2] * b[2])
RDiv(a, b) == Rat(a[1] * b[2], a[2] * b[1])
RLe(a, b) == a[1] * b[2] <= b[1] * a[2]
RLt(a, b) == a[1] * b[2] < b[1] * a[2]
RMin(a, b) == IF RLe(a, b) THEN a ELSE b
RMax(a, b) == IF RLe(a, b) THEN b ELSE a
RAbs(a) == <<Abs(a[1]), a[2]>>
Zero == Whole(0)
One == Whole(1)
Centi(k) == Rat(k, 100)
InUnit(a) == RLe(Zero, a) /\ RLe(a, One)

RECURSIVE RSum(_, _)
RSum(f, S) ==
    IF S = {} THEN Zero
    ELSE LET k == CHOOSE k \in S : TRUE IN RAdd(f[k], RSum(f, S \ {k}))

-----------------------------------------------------------------------------
(* Python values and dicts.                                                *)

None == [none |-> TRUE]
Num(r) == [num |-> r]
Str(s) == [str |-> s]
Bool(b) == [bool |-> b]
IsNone(v) == "none" \in DOMAIN v
IsStr(v) == "str" \in DOMAIN v
IsBool(v) == "bool" \in DOMAIN v
\* isinstance(v, (int, float)): bool is a subclass of int
IsNumber(v) == "num" \in DOMAIN v \/ "bool" \in DOMAIN v
NumOf(v) == IF "bool" \in DOMAIN v THEN (IF v.bool THEN One ELSE Zero) ELSE v.num

EmptyDict == <<>>
\* dict.get(k, default)
DictGet(d, k, default) == IF k \in DOMAIN d THEN d[k] ELSE default

LowerTable ==
    [s \in {"Z1", "Z2", "HIGH", "Critical"} |->
        CASE s = "Z1" -> "z1" [] s = "Z2" -> "z2" [] s = "HIGH" -> "high"
          [] s = "Critical" -> "critical"]
\* str.lower()
Lower(s) == IF s \in DOMAIN LowerTable THEN LowerTable[s] ELSE s
\* str(v).lower()
StrLower(v) ==
    IF IsStr(v) THEN Lower(v.str)
    ELSE IF IsNone(v) THEN "none"
    ELSE IF IsBool(v) THEN (IF v.bool THEN "true" ELSE "false")
    ELSE ToString(v.num)

-----------------------------------------------------------------------------
(* CommandEvaluator._commands_match                                        *)

MATCH_TOLERANCE == Rat(2, 10)
MATCH_FLOOR == Rat(1, 10)

\* abs(val1 - val2) / max(abs(val2), 0.1) > 0.2
MutNoFloorExceeds(val1, val2) ==
    IF val2 = Zero THEN val1 # Zero
    ELSE RLt(MATCH_TOLERANCE, RDiv(RAbs(RSub(val1, val2)), RAbs(val2)))

MutTightToleranceExceeds(val1, val2) ==
    RLt(Rat(1, 10), RDiv(RAbs(RSub(val1, val2)), RMax(RAbs(val2), MATCH_FLOOR)))

_numeric_variance_exceeds(val1, val2) ==
    RLt(MATCH_TOLERANCE, RDiv(RAbs(RSub(val1, val2)), RMax(RAbs(val2), MATCH_FLOOR)))

MutParamMismatchStrictKeys(params1, params2, key) ==
    \/ key \notin DOMAIN params1
    \/ LET val1 == params1[key]
           val2 == params2[key]
       IN  IF IsNumber(val1) /\ IsNumber(val2)
           THEN _numeric_variance_exceeds(NumOf(val1), NumOf(val2))
           ELSE StrLower(val1) # StrLower(val2)

\* one key of the loop over params2.keys(): TRUE when the key breaks the match
_param_mismatch(params1, params2, key) ==
    /\ key \in DOMAIN params1
    /\ LET val1 == params1[key]
           val2 == params2[key]
       IN  IF IsNumber(val1) /\ IsNumber(val2)
           THEN _numeric_variance_exceeds(NumOf(val1), NumOf(val2))
           ELSE StrLower(val1) # StrLower(val2)

\* not params: None or an empty dict
_no_parameters(params) == IsNone(params) \/ DOMAIN params = {}

_commands_match(c1, c2) ==
    IF \/ DictGet(c1, "service", None) # DictGet(c2, "service", None)
       \/ DictGet(c1, "action", None) # DictGet(c2, "action", None)
    THEN FALSE
    ELSE LET params1 == DictGet(c1, "parameters", EmptyDict)
             params2 == DictGet(c2, "parameters", EmptyDict)
         IN  IF _no_parameters(params1) \/ _no_parameters(params2)
             THEN TRUE
             ELSE \A key \in DOMAIN params2 : ~_param_mismatch(params1, params2, key)

\* a shared numeric key whose quotient is exactly 0.2: the comparison `> 0.2` is made
\* on floats, where the rounding of the subtraction and the division decides it
\* (abs(0.07 - 0.05) / 0.1 is 0.20000000000000004, abs(0.96 - 0.8) / 0.8 is 0.1999999999999999)
_on_tolerance_boundary(c1, c2) ==
    LET params1 == DictGet(c1, "parameters", EmptyDict)
        params2 == DictGet(c2, "parameters", EmptyDict)
    IN  /\ ~_no_parameters(params1) /\ ~_no_parameters(params2)
        /\ \E key \in DOMAIN params1 \cap DOMAIN params2 :
            /\ IsNumber(params1[key]) /\ IsNumber(params2[key])
            /\ RDiv(RAbs(RSub(NumOf(params1[key]), NumOf(params2[key]))),
                    RMax(RAbs(NumOf(params2[key])), MATCH_FLOOR)) = MATCH_TOLERANCE

\* the values a call of _commands_match can return
_commands_match_outcomes(c1, c2) ==
    {_commands_match(c1, c2)} \cup
        (IF _commands_match(c1, c2) /\ _on_tolerance_boundary(c1, c2) THEN {FALSE} ELSE {})

\* a command dict {"service", "action", "parameters"}
Cmd(service, action, params) ==
    [service |-> Str(service), action |-> Str(action), parameters |-> params]

-----------------------------------------------------------------------------
(* Metric calculators of CommandEvaluator.  A normalized state is a dict   *)
(* with the collections zones, incidents, drones, traffic, infrastructure, *)
(* each a dict from an id to the entity's dict of tagged values.           *)

RECURSIVE ISum(_, _)
ISum(f, S) ==
    IF S = {} THEN 0
    ELSE LET k == CHOOSE k \in S : TRUE IN f[k] + ISum(f, S \ {k})

\* the largest k in lo..hi with k*k <= n
RECURSIVE ISqrtIn(_, _, _)
ISqrtIn(n, lo, hi) ==
    IF lo >= hi THEN lo
    ELSE LET mid == (lo + hi + 1) \div 2
         IN  IF mid * mid <= n THEN ISqrtIn(n, mid, hi) ELSE ISqrtIn(n, lo, mid - 1)
ISqrt(n) == ISqrtIn(n, 0, IF n < 46340 THEN n ELSE 46340)

\* c ** 1.5 = c * sqrt(c) for c = n/d >= 0: exact when n*d is a perfect square,
\* else sqrt(n*d) is rounded down to a hundredth
Pow15(c) ==
    LET nd == c[1] * c[2]
        r == ISqrt(nd)
    IN  IF r * r = nd
        THEN Rat(c[1] * r, c[2] * c[2])
        ELSE Rat(c[1] * ISqrt(nd * 10000), c[2] * c[2] * 100)

\* truth value of a Python value
Truthy(v) ==
    IF IsNone(v) THEN FALSE
    ELSE IF IsBool(v) THEN v.bool
    ELSE IF IsStr(v) THEN v.str # ""
    ELSE v.num # Zero

\* state.get(collection, {})
Coll(st, name) == DictGet(st, name, EmptyDict)
\* e.get(field, 0.0) as a number
NumField(e, field) == NumOf(DictGet(e, field, Num(Zero)))
\* e.get(field, False) in a condition
BoolField(e, field) == Truthy(DictGet(e, field, Bool(FALSE)))
\* e.get("status") in statuses
StatusIn(e, statuses) == DictGet(e, "status", None) \in {Str(x) : x \in statuses}

_calculate_grid_stability(st) ==
    LET zones == Coll(st, "zones") IN
    IF DOMAIN zones = {} THEN Zero
    ELSE LET weight == [z \in DOMAIN zones |-> IF BoolField(zones[z], "is_critical") THEN 2 ELSE 1]
             total_stability ==
                 RSum([z \in DOMAIN zones |->
                         RMul(NumField(zones[z], "stability"), Whole(weight[z]))], DOMAIN zones)
             total_weight == ISum(weight, DOMAIN zones)
         IN  IF total_weight > 0 THEN RDiv(total_stability, Whole(total_weight)) ELSE Zero

\* the piecewise score of a load ratio, before the final clamp
_power_score(load_ratio) ==
    IF RLe(load_ratio, Centi(60))
    THEN RAdd(Centi(60), RMul(RSub(Centi(60), load_ratio), Centi(50)))
    ELSE IF RLe(load_ratio, Centi(85))
    THEN RAdd(Centi(90), RMul(RSub(Centi(85), load_ratio), Centi(40)))
    ELSE IF RLe(load_ratio, Centi(95))
    THEN RSub(Centi(90), RMul(RSub(load_ratio, Centi(85)), Whole(3)))
    ELSE RMax(Zero, RSub(Centi(60), RMul(RSub(load_ratio, Centi(95)), Whole(6))))

\* total_load / total_capacity of the zones (total_capacity # 0)
_load_ratio(st) ==
    LET zones == Coll(st, "zones")
        total_capacity == RSum([z \in DOMAIN zones |-> NumField(zones[z], "capacity_kw")], DOMAIN zones)
        total_load == RSum([z \in DOMAIN zones |-> NumField(zones[z], "current_load_kw")], DOMAIN zones)
    IN  RDiv(total_load, total_capacity)

_total_capacity(st) ==
    LET zones == Coll(st, "zones")
    IN  RSum([z \in DOMAIN zones |-> NumField(zones[z], "capacity_kw")], DOMAIN zones)

_calculate_power_conservation(st) ==
    LET zones == Coll(st, "zones") IN
    IF DOMAIN zones = {} THEN Zero
    ELSE IF _total_capacity(st) = Zero THEN Zero
    ELSE RMax(Zero, RMin(One, _power_score(_load_ratio(st))))

\* incidents handed over as a dict: list(incidents.values()), kept as the dict itself
IncidentIds(st) == DOMAIN Coll(st, "incidents")

_calculate_critical_infrastructure(st) ==
    LET zones == Coll(st, "zones")
        infrastructure == Coll(st, "infrastructure")
        incidents == Coll(st, "incidents")
        critical_zones == {z \in DOMAIN zones : BoolField(zones[z], "is_critical")}
        zone_stability ==
            IF critical_zones # {}
            THEN RDiv(RSum([z \in critical_zones |-> NumField(zones[z], "stability")], critical_zones),
                      Whole(Cardinality(critical_zones)))
            ELSE Centi(80)
        critical_count ==
            Cardinality({i \in DOMAIN infrastructure :
                            DictGet(infrastructure[i], "level", None) = Str("critical")})
        high_count ==
            Cardinality({i \in DOMAIN infrastructure :
                            DictGet(infrastructure[i], "level", None) = Str("high")})
        priority_score ==
            IF DOMAIN infrastructure # {}
            THEN RDiv(RAdd(Whole(critical_count), RMul(Whole(high_count), Centi(70))),
                      Whole(Cardinality(DOMAIN infrastructure)))
            ELSE Centi(50)
        critical_zone_ids == {DictGet(zones[z], "zone_id", None) : z \in critical_zones}
        critical_incidents ==
            {i \in DOMAIN incidents :
                /\ DictGet(incidents[i], "zone", None) \in critical_zone_ids
                /\ StatusIn(incidents[i], {"active", "assigned"})}
        emergency_impact ==
            IF DOMAIN incidents # {} /\ critical_incidents # {}
            THEN RMax(Centi(50),
                      RSub(One, RMul(RDiv(Whole(Cardinality(critical_incidents)),
                                          Whole(Cardinality(DOMAIN incidents))), Centi(40))))
            ELSE One
    IN  IF DOMAIN zones = {} THEN Zero
        ELSE RAdd(RAdd(RMul(zone_stability, Centi(40)), RMul(priority_score, Centi(40))),
                  RMul(emergency_impact, Centi(20)))

\* blocked sectors / sectors (traffic not empty)
_blocked_ratio(st) ==
    LET traffic == Coll(st, "traffic")
    IN  RDiv(Whole(Cardinality({t \in DOMAIN traffic : BoolField(traffic[t], "is_blocked")})),
             Whole(Cardinality(DOMAIN traffic)))

\* mean congestion_level of the sectors (traffic not empty)
_avg_congestion(st) ==
    LET traffic == Coll(st, "traffic")
    IN  RDiv(RSum([t \in DOMAIN traffic |-> NumField(traffic[t], "congestion_level")], DOMAIN traffic),
             Whole(Cardinality(DOMAIN traffic)))

\* incidents with a drone assigned: inc.get("assigned_drone") is not None
_assigned_incidents(st) ==
    LET incidents == Coll(st, "incidents")
    IN  {i \in DOMAIN incidents : ~IsNone(DictGet(incidents[i], "assigned_drone", None))}

_incidents_with_status(st, statuses) ==
    LET incidents == Coll(st, "incidents")
    IN  {i \in DOMAIN incidents : StatusIn(incidents[i], statuses)}

MutIncidentResponseNoClamp(st) ==
    LET incidents == Coll(st, "incidents")
        traffic == Coll(st, "traffic")
        total == Whole(Cardinality(DOMAIN incidents))
        base_score == RDiv(Whole(Cardinality(_assigned_incidents(st))), total)
        progress_bonus ==
            RMul(RDiv(Whole(Cardinality(_incidents_with_status(st, {"in_progress"}))), total), Centi(20))
        traffic_penalty ==
            IF DOMAIN traffic # {} THEN RMul(_blocked_ratio(st), Centi(10)) ELSE Zero
    IN  IF DOMAIN incidents = {} THEN One
        ELSE RSub(RAdd(base_score, progress_bonus), traffic_penalty)

_calculate_incident_response(st) ==
    LET incidents == Coll(st, "incidents")
        traffic == Coll(st, "traffic")
        total == Whole(Cardinality(DOMAIN incidents))
        base_score == RDiv(Whole(Cardinality(_assigned_incidents(st))), total)
        progress_bonus ==
            RMul(RDiv(Whole(Cardinality(_incidents_with_status(st, {"in_progress"}))), total), Centi(20))
        traffic_penalty ==
            IF DOMAIN traffic # {} THEN RMul(_blocked_ratio(st), Centi(10)) ELSE Zero
    IN  IF DOMAIN incidents = {} THEN One
        ELSE RMax(Zero, RMin(One, RSub(RAdd(base_score, progress_bonus), traffic_penalty)))

_calculate_incident_resolution(st) ==
    LET incidents == Coll(st, "incidents")
        resolved == Cardinality(_incidents_with_status(st, {"resolved"}))
        in_progress == Cardinality(_incidents_with_status(st, {"in_progress"}))
    IN  IF DOMAIN incidents = {} THEN One
        ELSE RDiv(RAdd(Whole(resolved), RMul(Whole(in_progress), Centi(50))),
                  Whole(Cardinality(DOMAIN incidents)))

_active_drones(st) ==
    LET drones == Coll(st, "drones")
    IN  {d \in DOMAIN drones : StatusIn(drones[d], {"assigned", "en_route", "on_site"})}

_available_drones(st) ==
    LET drones == Coll(st, "drones")
    IN  {d \in DOMAIN drones : DictGet(drones[d], "status", None) # Str("disabled")}

_calculate_drone_utilization(st) ==
    IF DOMAIN Coll(st, "drones") = {} THEN Zero
    ELSE IF _available_drones(st) = {} THEN Zero
    ELSE RDiv(Whole(Cardinality(_active_drones(st))), Whole(Cardinality(_available_drones(st))))

_calculate_response_time(st) ==
    LET traffic == Coll(st, "traffic") IN
    IF DOMAIN Coll(st, "incidents") = {} THEN One
    ELSE IF _assigned_incidents(st) = {} THEN Zero
    ELSE IF DOMAIN traffic # {}
         THEN RMax(Centi(20), RSub(Centi(80), RMul(_avg_congestion(st), Centi(30))))
         ELSE Centi(80)

\* flow of one sector
_sector_flow(sector) ==
    IF BoolField(sector, "is_blocked") THEN Centi(10)
    ELSE RMax(Centi(10), RSub(One, Pow15(NumField(sector, "congestion_level"))))

_calculate_traffic_flow(st) ==
    LET traffic == Coll(st, "traffic")
        base_score ==
            RDiv(RSum([t \in DOMAIN traffic |-> _sector_flow(traffic[t])], DOMAIN traffic),
                 Whole(Cardinality(DOMAIN traffic)))
        with_bonus ==
            IF _incidents_with_status(st, {"assigned", "in_progress"}) # {}
            THEN RAdd(base_score, RMin(Centi(10), RMul(base_score, Centi(20))))
            ELSE base_score
    IN  IF DOMAIN traffic = {} THEN Centi(70)
        ELSE RMin(One, with_bonus)

MutEmergencyRoutingNoPenaltyFloor(st) ==
    LET traffic == Coll(st, "traffic")
        incidents == Coll(st, "incidents")
        routing_score == RMax(Centi(20), RSub(One, RMul(_avg_congestion(st), Centi(80))))
        after_penalty == RSub(routing_score, RMul(_blocked_ratio(st), Centi(30)))
        active_emergencies == Cardinality(_incidents_with_status(st, {"assigned", "in_progress"}))
        with_bonus ==
            IF active_emergencies > 0
            THEN RAdd(after_penalty,
                      RMul(RDiv(Whole(active_emergencies), Whole(Cardinality(DOMAIN incidents))),
                           Centi(20)))
            ELSE after_penalty
    IN  IF DOMAIN traffic = {} THEN Centi(50)
        ELSE IF DOMAIN incidents = {} THEN Centi(90)
        ELSE RMax(Zero, RMin(One, with_bonus))

_calculate_emergency_routing(st) ==
    LET traffic == Coll(st, "traffic")
        incidents == Coll(st, "incidents")
        routing_score == RMax(Centi(20), RSub(One, RMul(_avg_congestion(st), Centi(80))))
        after_penalty == RMax(Centi(10), RSub(routing_score, RMul(_blocked_ratio(st), Centi(30))))
        active_emergencies == Cardinality(_incidents_with_status(st, {"assigned", "in_progress"}))
        with_bonus ==
            IF active_emergencies > 0
            THEN RAdd(after_penalty,
                      RMul(RDiv(Whole(active_emergencies), Whole(Cardinality(DOMAIN incidents))),
                           Centi(20)))
            ELSE after_penalty
    IN  IF DOMAIN traffic = {} THEN Centi(50)
        ELSE IF DOMAIN incidents = {} THEN Centi(90)
        ELSE RMin(One, with_bonus)

\* weight of the congestion band of one sector
_band_weight(sector) ==
    LET c == NumField(sector, "congestion_level") IN
    IF RLe(c, Centi(20)) THEN One
    ELSE IF RLe(c, Centi(40)) THEN Centi(80)
    ELSE IF RLe(c, Centi(60)) THEN Centi(60)
    ELSE IF RLe(c, Centi(80)) THEN Centi(30)
    ELSE Zero

_calculate_congestion_management(st) ==
    LET traffic == Coll(st, "traffic")
        incidents == Coll(st, "incidents")
        score ==
            RDiv(RSum([t \in DOMAIN traffic |-> _band_weight(traffic[t])], DOMAIN traffic),
                 Whole(Cardinality(DOMAIN traffic)))
        active_incidents == _incidents_with_status(st, {"active", "assigned", "in_progress"})
        adjusted ==
            IF active_incidents # {}
            THEN RAdd(score,
                      RMin(Centi(10),
                           RMul(RDiv(Whole(Cardinality(active_incidents)),
                                     Whole(Cardinality(DOMAIN incidents))), Centi(15))))
            ELSE score
    IN  IF DOMAIN traffic = {} THEN Centi(50)
        ELSE RMin(One, adjusted)

_calculate_overall_coordination(st) ==
    LET zones == Coll(st, "zones")
        incidents == Coll(st, "incidents")
        traffic == Coll(st, "traffic")
        critical_zones == {z \in DOMAIN zones : BoolField(zones[z], "is_critical")}
        critical_zone_ids == {DictGet(zones[z], "zone_id", None) : z \in critical_zones}
        critical_incidents ==
            {i \in DOMAIN incidents : DictGet(incidents[i], "zone", None) \in critical_zone_ids}
        \* Factor 1: grid-emergency (emergency_zones is critical_zones again)
        factor1_applies == DOMAIN zones # {} /\ DOMAIN incidents # {} /\ critical_zones # {}
        factor1 ==
            IF critical_incidents # {}
            THEN RDiv(RSum([z \in critical_zones |-> NumField(zones[z], "stability")], critical_zones),
                      Whole(Cardinality(critical_zones)))
            ELSE Centi(90)
        \* Factor 2: traffic-emergency
        factor2_applies == DOMAIN traffic # {} /\ DOMAIN incidents # {}
        factor2 ==
            IF _incidents_with_status(st, {"assigned", "in_progress"}) # {}
            THEN RMax(Centi(30), RSub(One, RMul(_avg_congestion(st), Centi(70))))
            ELSE Centi(80)
        \* Factor 3: grid-traffic
        factor3_applies == DOMAIN zones # {} /\ DOMAIN traffic # {}
        avg_stability ==
            RDiv(RSum([z \in DOMAIN zones |-> NumField(zones[z], "stability")], DOMAIN zones),
                 Whole(Cardinality(DOMAIN zones)))
        factor3 == RAdd(RMul(avg_stability, Centi(60)), RMul(RSub(One, _avg_congestion(st)), Centi(40)))
        coordination_score ==
            RAdd(RAdd(IF factor1_applies THEN factor1 ELSE Zero,
                      IF factor2_applies THEN factor2 ELSE Zero),
                 IF factor3_applies THEN factor3 ELSE Zero)
        coordination_factors ==
            (IF factor1_applies THEN 1 ELSE 0) + (IF factor2_applies THEN 1 ELSE 0)
                + (IF factor3_applies THEN 1 ELSE 0)
    IN  IF coordination_factors = 0 THEN Centi(50)
        ELSE RDiv(coordination_score, Whole(coordination_factors))

\* score of a drone utilization: 70-90% is optimal
_drone_efficiency(utilization) ==
    IF RLe(utilization, Centi(70)) THEN RMul(RDiv(utilization, Centi(70)), Centi(80))
    ELSE IF RLe(utilization, Centi(90)) THEN RAdd(Centi(80), RSub(utilization, Centi(70)))
    ELSE RMax(Centi(70), RSub(One, RMul(RSub(utilization, Centi(90)), Whole(2))))

_calculate_resource_efficiency(st) ==
    LET has_drone_factor == DOMAIN Coll(st, "drones") # {} /\ _available_drones(st) # {}
        drone_part ==
            IF has_drone_factor
            THEN _drone_efficiency(RDiv(Whole(Cardinality(_active_drones(st))),
                                        Whole(Cardinality(_available_drones(st)))))
            ELSE Zero
        efficiency_score ==
            RAdd(RAdd(drone_part, _calculate_power_conservation(st)), _calculate_traffic_flow(st))
        efficiency_factors == (IF has_drone_factor THEN 1 ELSE 0) + 2
    IN  RDiv(efficiency_score, Whole(efficiency_factors))

\* CommandEvaluator._initialize_metric_calculators
CalculatorNames ==
    {"grid_stability", "power_conservation", "critical_infrastructure",
     "incident_response", "incident_resolution", "drone_utilization", "response_time",
     "traffic_flow", "emergency_routing", "congestion_management",
     "overall_coordination", "resource_efficiency"}

\* self.metric_calculators[name](state)
Calculate(name, st) ==
    CASE name = "grid_stability" -> _calculate_grid_stability(st)
      [] name = "power_conservation" -> _calculate_power_conservation(st)
      [] name = "critical_infrastructure" -> _calculate_critical_infrastructure(st)
      [] name = "incident_response" -> _calculate_incident_response(st)
      [] name = "incident_resolution" -> _calculate_incident_resolution(st)
      [] name = "drone_utilization" -> _calculate_drone_utilization(st)
      [] name = "response_time" -> _calculate_response_time(st)
      [] name = "traffic_flow" -> _calculate_traffic_flow(st)
      [] name = "emergency_routing" -> _calculate_emergency_routing(st)
      [] name = "congestion_management" -> _calculate_congestion_management(st)
      [] name = "overall_coordination" -> _calculate_overall_coordination(st)
      [] name = "resource_efficiency" -> _calculate_resource_efficiency(st)

-----------------------------------------------------------------------------
(* _normalize_state.  A raw collection is a dict (a function from ids) or  *)
(* a list, written [list |-> <<e1, ..., en>>].                             *)

TagNames == {"num", "str", "bool", "none", "list"}
\* isinstance(c, list)
IsList(c) == "list" \in DOMAIN c
\* isinstance(e, dict)
IsDict(e) == DOMAIN e \cap TagNames = {}
\* a or b
PyOr(a, b) == IF Truthy(a) THEN a ELSE b
EmptyList == [list |-> <<>>]

\* "inner" in state[outer], for an outer entry that is there
NestedHas(st, outer, inner) == outer \in DOMAIN st /\ inner \in DOMAIN st[outer]

MutNormalizedSectorAliasOnly(sector_id, sector) ==
    [id |-> Str(sector_id),
     zone_id |-> Str(sector_id),
     congestion_level |-> DictGet(sector, "congestion", Num(Zero)),
     is_blocked |-> DictGet(sector, "blocked", Bool(FALSE)),
     description |-> DictGet(sector, "description", Str(""))]

_normalized_zone(zone_id, zone) ==
    [id |-> Str(zone_id),
     stability |-> DictGet(zone, "stability", Num(Zero)),
     capacity_kw |-> PyOr(DictGet(zone, "capacity_kw", None), DictGet(zone, "capacity", Num(Zero))),
     current_load_kw |->
         PyOr(DictGet(zone, "current_load_kw", None), DictGet(zone, "current_load", Num(Zero))),
     is_critical |-> DictGet(zone, "is_critical", Bool(FALSE)),
     status |-> DictGet(zone, "status", Str("normal")),
     zone_id |-> Str(zone_id)]

_normalized_incident(incident_id, incident) ==
    [id |-> Str(incident_id),
     status |-> DictGet(incident, "status", Str("active")),
     assigned_drone |-> DictGet(incident, "assigned_drone", None),
     zone |-> PyOr(DictGet(incident, "zone", None), DictGet(incident, "location", None)),
     urgency |-> DictGet(incident, "urgency", Num(Zero)),
     description |-> DictGet(incident, "description", Str(""))]

_normalized_drone(drone_id, drone) ==
    [id |-> Str(drone_id),
     status |-> DictGet(drone, "status", Str("available")),
     capabilities |-> DictGet(drone, "capabilities", EmptyList),
     speed |-> DictGet(drone, "speed", Num(One)),
     assigned_incident |-> DictGet(drone, "assigned_incident", None)]

_normalized_sector(sector_id, sector) ==
    [id |-> Str(sector_id),
     zone_id |-> Str(sector_id),
     congestion_level |->
         PyOr(DictGet(sector, "congestion_level", None), DictGet(sector, "congestion", Num(Zero))),
     is_blocked |-> PyOr(DictGet(sector, "is_blocked", None), DictGet(sector, "blocked", Bool(FALSE))),
     description |-> DictGet(sector, "description", Str(""))]

\* the id a list entry is filed under
_zone_list_id(zone) == PyOr(DictGet(zone, "id", None), DictGet(zone, "zone_id", None))
_incident_list_id(incident) == PyOr(DictGet(incident, "id", None), DictGet(incident, "incident_id", None))
_drone_list_id(drone) == PyOr(DictGet(drone, "id", None), DictGet(drone, "drone_id", None))
_sector_list_id(sector) ==
    PyOr(PyOr(DictGet(sector, "id", None), DictGet(sector, "zone_id", None)),
         DictGet(sector, "sector_id", None))

\* the loops over a list: entries without an id are dropped, a later entry replaces an
\* earlier one with the same id
RECURSIVE _zones_from_list(_)
_zones_from_list(seq) ==
    IF seq = <<>> THEN EmptyDict
    ELSE LET zone == seq[Len(seq)]
             rest == _zones_from_list(SubSeq(seq, 1, Len(seq) - 1))
             zone_id == _zone_list_id(zone)
         IN  IF Truthy(zone_id) THEN (zone_id.str :> _normalized_zone(zone_id.str, zone)) @@ rest
             ELSE rest

RECURSIVE _incidents_from_list(_)
_incidents_from_list(seq) ==
    IF seq = <<>> THEN EmptyDict
    ELSE LET incident == seq[Len(seq)]
             rest == _incidents_from_list(SubSeq(seq, 1, Len(seq) - 1))
             incident_id == _incident_list_id(incident)
         IN  IF Truthy(incident_id)
             THEN (incident_id.str :> _normalized_incident(incident_id.str, incident)) @@ rest
             ELSE rest

RECURSIVE _drones_from_list(_)
_drones_from_list(seq) ==
    IF seq = <<>> THEN EmptyDict
    ELSE LET drone == seq[Len(seq)]
             rest == _drones_from_list(SubSeq(seq, 1, Len(seq) - 1))
             drone_id == _drone_list_id(drone)
         IN  IF Truthy(drone_id) THEN (drone_id.str :> _normalized_drone(drone_id.str, drone)) @@ rest
             ELSE rest

RECURSIVE _traffic_from_list(_)
_traffic_from_list(seq) ==
    IF seq = <<>> THEN EmptyDict
    ELSE LET sector == seq[Len(seq)]
             rest == _traffic_from_list(SubSeq(seq, 1, Len(seq) - 1))
             sector_id == _sector_list_id(sector)
         IN  IF Truthy(sector_id)
             THEN (sector_id.str :> _normalized_sector(sector_id.str, sector)) @@ rest
             ELSE rest

\* the loops over a dict: entries that are not dicts are dropped
_zones_from_dict(zones) ==
    LET kept == {k \in DOMAIN zones : IsDict(zones[k])}
    IN  [k \in kept |-> _normalized_zone(k, zones[k])]

_traffic_from_dict(traffic) ==
    LET kept == {k \in DOMAIN traffic : IsDict(traffic[k])}
    IN  [k \in kept |-> _normalized_sector(k, traffic[k])]

_raw_zones(st) ==
    IF "zones" \in DOMAIN st THEN st["zones"]
    ELSE IF NestedHas(st, "grid", "zones") THEN st["grid"]["zones"]
    ELSE EmptyDict

_raw_incidents(st) ==
    IF "incidents" \in DOMAIN st THEN st["incidents"]
    ELSE IF NestedHas(st, "emergency", "incidents") THEN st["emergency"]["incidents"]
    ELSE EmptyList

_raw_drones(st) ==
    IF "drones" \in DOMAIN st THEN st["drones"]
    ELSE IF NestedHas(st, "emergency", "drones") THEN st["emergency"]["drones"]
    ELSE EmptyList

_raw_traffic(st) ==
    IF "traffic" \in DOMAIN st THEN st["traffic"]
    ELSE IF "traffic_management" \in DOMAIN st THEN st["traffic_management"]
    ELSE EmptyDict

_raw_infrastructure(st) ==
    IF "infrastructure" \in DOMAIN st THEN st["infrastructure"]
    ELSE IF NestedHas(st, "grid", "infrastructure") THEN st["grid"]["infrastructure"]
    ELSE EmptyDict

_normalize_state(st) ==
    [zones |->
        IF IsList(_raw_zones(st)) THEN _zones_from_list(_raw_zones(st).list)
        ELSE _zones_from_dict(_raw_zones(st)),
     incidents |->
        IF IsList(_raw_incidents(st)) THEN _incidents_from_list(_raw_incidents(st).list)
        ELSE _raw_incidents(st),
     drones |->
        IF IsList(_raw_drones(st)) THEN _drones_from_list(_raw_drones(st).list)
        ELSE _raw_drones(st),
     traffic |->
        IF IsList(_raw_traffic(st)) THEN _traffic_from_list(_raw_traffic(st).list)
        ELSE _traffic_from_dict(_raw_traffic(st)),
     infrastructure |-> _raw_infrastructure(st)]

-----------------------------------------------------------------------------
(* workshop/command.py: parameter validators, endpoint mapping and         *)
(* CommandExecutor.execute.  A validator or a conversion returns           *)
(* Returned(value) or Raised(exception type).                              *)

SUCCESS == "success"
FAILURE == "failure"
TIMEOUT == "timeout"

\* the strings of the model that float() parses
FloatTable == ("0.5" :> Rat(1, 2)) @@ ("1.5" :> Rat(3, 2)) @@ ("30" :> Whole(30))
\* the strings of the model that int() parses
IntTable == ("30" :> 30)

\* float(v)
PyFloat(v) ==
    IF IsNone(v) \/ IsList(v) THEN Raised("TypeError")
    ELSE IF IsStr(v)
         THEN IF v.str \in DOMAIN FloatTable THEN Returned(FloatTable[v.str])
              ELSE Raised("ValueError")
         ELSE Returned(NumOf(v))

\* int(v): a number is truncated toward zero
PyInt(v) ==
    IF IsNone(v) \/ IsList(v) THEN Raised("TypeError")
    ELSE IF IsStr(v)
         THEN IF v.str \in DOMAIN IntTable THEN Returned(IntTable[v.str])
              ELSE Raised("ValueError")
         ELSE LET r == NumOf(v)
              IN  Returned(IF r[1] >= 0 THEN r[1] \div r[2] ELSE 0 - ((0 - r[1]) \div r[2]))

\* for param in required: if param not in params: raise ValueError
MissingRequired(params, required) == \E param \in required : param \notin DOMAIN params

\* if not 0.0 <= float(params[key]) <= 1.0: raise ValueError
UnitFloatCheck(params, key) ==
    LET f == PyFloat(params[key])
    IN  IF HasRaised(f) THEN f
        ELSE IF ~(RLe(Zero, f.value) /\ RLe(f.value, One)) THEN Raised("ValueError")
        ELSE Returned(params)

validate_adjust_zone(params) ==
    IF MissingRequired(params, {"zone_id", "capacity"}) THEN Raised("ValueError")
    ELSE UnitFloatCheck(params, "capacity")

AllowedLevels == {"critical", "high", "medium", "low"}

validate_set_priority(params) ==
    IF MissingRequired(params, {"infrastructure_id", "level"}) THEN Raised("ValueError")
    ELSE IF params["level"] \notin {Str(x) : x \in AllowedLevels} THEN Raised("ValueError")
    ELSE Returned(params)

validate_emergency_shutdown(params) ==
    IF MissingRequired(params, {"zone_id", "reason"}) THEN Raised("ValueError")
    ELSE Returned(params)

validate_forecast_load(params) ==
    IF "hours" \in DOMAIN params
    THEN LET h == PyInt(params["hours"])
         IN  IF HasRaised(h) THEN h
             ELSE IF ~(1 <= h.value /\ h.value <= 24) THEN Raised("ValueError")
             ELSE Returned(params)
    ELSE Returned(params)

validate_assign_drone(params) ==
    IF MissingRequired(params, {"drone_id", "incident_id"}) THEN Raised("ValueError")
    ELSE Returned(params)

AllowedStatuses == {"active", "assigned", "in_progress", "resolved", "canceled"}

validate_update_incident(params) ==
    IF MissingRequired(params, {"incident_id", "status"}) THEN Raised("ValueError")
    ELSE IF params["status"] \notin {Str(x) : x \in AllowedStatuses} THEN Raised("ValueError")
    ELSE Returned(params)

validate_redirect(params) ==
    IF MissingRequired(params, {"sector_id", "target_reduction"}) THEN Raised("ValueError")
    ELSE UnitFloatCheck(params, "target_reduction")

MIN_DURATION == 5
MAX_DURATION == 1440

validate_block_route(params) ==
    IF MissingRequired(params, {"sector", "reason"}) THEN Raised("ValueError")
    ELSE IF "duration_minutes" \in DOMAIN params
    THEN LET duration == PyInt(params["duration_minutes"])
         IN  IF HasRaised(duration) THEN duration
             ELSE IF ~(MIN_DURATION <= duration.value /\ duration.value <= MAX_DURATION)
                  THEN Raised("ValueError")
             ELSE Returned(params)
    ELSE Returned(params)

\* self.validators[service][action](parameters); report_status and report_conditions
\* accept everything
Validate(service, action, params) ==
    CASE service = "grid" /\ action = "adjust_zone" -> validate_adjust_zone(params)
      [] service = "grid" /\ action = "set_priority" -> validate_set_priority(params)
      [] service = "grid" /\ action = "forecast_load" -> validate_forecast_load(params)
      [] service = "grid" /\ action = "emergency_shutdown" -> validate_emergency_shutdown(params)
      [] service = "emergency" /\ action = "assign_drone" -> validate_assign_drone(params)
      [] service = "emergency" /\ action = "update_incident" -> validate_update_incident(params)
      [] service = "traffic" /\ action = "redirect" -> validate_redirect(params)
      [] service = "traffic" /\ action = "block_route" -> validate_block_route(params)
      [] OTHER -> Returned(params)

\* endpoint_mappings: (path template, the parameter the path holds or "", method)
EndpointMappings ==
    [grid |->
        [adjust_zone |-> <<"/grid/zones/{zone_id}/capacity", "zone_id", "PUT">>,
         set_priority |-> <<"/grid/infrastructure/{infrastructure_id}/priority", "infrastructure_id", "POST">>,
         emergency_shutdown |-> <<"/grid/emergency_shutdown", "", "POST">>,
         report_status |-> <<"/grid/report_status", "", "GET">>,
         forecast_load |-> <<"/grid/forecast_load", "", "POST">>],
     emergency |->
        [assign_drone |-> <<"/emergency/drones/{drone_id}/assign", "drone_id", "POST">>,
         update_incident |-> <<"/emergency/incidents/{incident_id}", "incident_id", "POST">>,
         report_status |-> <<"/emergency/report_status", "", "GET">>],
     traffic |->
        [redirect |-> <<"/traffic/redirect", "", "POST">>,
         report_conditions |-> <<"/traffic/report_conditions", "", "POST">>,
         block_route |-> <<"/traffic/block_route", "", "POST">>]]

\* params_copy.pop(key, None)
DictPop(d, key) == [k \in DOMAIN d \ {key} |-> d[k]]

\* the endpoint is the template with the value of its path parameter filled in
_map_to_endpoint(service, action, parameters) ==
    IF service \notin DOMAIN EndpointMappings THEN Raised("ValueError")
    ELSE IF action \notin DOMAIN EndpointMappings[service] THEN Raised("ValueError")
    ELSE LET mapping == EndpointMappings[service][action]
             pathParam == mapping[2]
         IN  IF pathParam # "" /\ pathParam \notin DOMAIN parameters THEN Raised("ValueError")
             ELSE Returned([endpoint |-> [template |-> mapping[1],
                                          arg |-> IF pathParam = "" THEN None
                                                  ELSE parameters[pathParam]],
                            method |-> mapping[3],
                            data |-> IF pathParam = "" THEN parameters
                                     ELSE DictPop(parameters, pathParam)])

ServicePorts == [grid |-> 8002, emergency |-> 8003, traffic |-> 8004]

\* what the target service does with a request
ServiceBehaviours == {"2xx", "non-2xx", "timeout", "connection failure"}

CommandResult(success, status, error) == [success |-> success, status |-> status, error |-> error]

\* execute up to the point where the request goes out: the result or exception that
\* ends the call early, or the request to send
_execute_prepare(cmd) ==
    IF cmd.service.str \notin DOMAIN ServicePorts
    THEN [early |-> Returned(CommandResult(FALSE, FAILURE, "unknown service"))]
    ELSE LET validated == Validate(cmd.service.str, cmd.action.str, cmd.parameters)
         IN  IF HasRaised(validated)
             THEN IF validated.raised = "ValueError"
                  THEN [early |-> Returned(CommandResult(FALSE, FAILURE, "validation"))]
                  ELSE [early |-> Raised(validated.raised)]
             ELSE LET mapped == _map_to_endpoint(cmd.service.str, cmd.action.str, validated.value)
                  IN  IF HasRaised(mapped) THEN [early |-> Raised(mapped.raised)]
                      ELSE [request |-> [port |-> ServicePorts[cmd.service.str],
                                         endpoint |-> mapped.value.endpoint,
                                         method |-> mapped.value.method,
                                         data |-> mapped.value.data]]

MutExecuteOutcomeTimeoutAsFailure(behaviour) ==
    CASE behaviour = "2xx" -> CommandResult(TRUE, SUCCESS, "")
      [] behaviour = "non-2xx" -> CommandResult(FALSE, FAILURE, "status code")
      [] OTHER -> CommandResult(FALSE, FAILURE, "exception")

\* the CommandResult for the service's answer to the request
_execute_outcome(behaviour) ==
    CASE behaviour = "2xx" -> CommandResult(TRUE, SUCCESS, "")
      [] behaviour = "non-2xx" -> CommandResult(FALSE, FAILURE, "status code")
      [] behaviour = "timeout" -> CommandResult(FALSE, TIMEOUT, "Request timed out")
      [] OTHER -> CommandResult(FALSE, FAILURE, "exception")

-----------------------------------------------------------------------------
(* evaluate_scenario_commands and CommandEvaluator.evaluate_commands.      *)
(* A scenario is a scenario definition                                     *)
(*   [metrics |-> name -> target, command_weights |-> service -> weight,   *)
(*    optimal_commands |-> <<command dict, ...>>]                          *)
(* or [fallback |-> scenario type] when no definition is passed.           *)

\* the words evaluate_scenario_commands looks for that occur in each metric name
NameKeywords ==
    [grid_stability |-> {"grid", "stability"},
     power_conservation |-> {"power"},
     critical_infrastructure |-> {},
     incident_response |-> {"incident"},
     incident_resolution |-> {"incident"},
     drone_utilization |-> {"drone"},
     response_time |-> {},
     traffic_flow |-> {"traffic"},
     emergency_routing |-> {"emergency", "routing"},
     congestion_management |-> {"congestion"},
     overall_coordination |-> {},
     resource_efficiency |-> {},
     crowd_safety |-> {},
     security |-> {}]

\* word in metric_name
Contains(metric_name, word) == word \in NameKeywords[metric_name]

_metric_service(metric_name) ==
    IF \E w \in {"grid", "power", "stability"} : Contains(metric_name, w) THEN "grid"
    ELSE IF \E w \in {"incident", "emergency", "drone"} : Contains(metric_name, w) THEN "emergency"
    ELSE IF \E w \in {"traffic", "routing", "congestion"} : Contains(metric_name, w) THEN "traffic"
    ELSE "system"

SYSTEM_WEIGHT == Rat(2, 10)

_metric_weight(definition, metric_name) ==
    IF _metric_service(metric_name) = "system" THEN SYSTEM_WEIGHT
    ELSE DictGet(definition.command_weights, _metric_service(metric_name), One)

THRESHOLD == "threshold"
RANGE == "range"

MetricDefinition(name, type, target, weight, service, calculation) ==
    [name |-> name, type |-> type, target |-> target, weight |-> weight,
     service |-> service, calculation |-> calculation]

\* weight: float = Field(ge=0.0, le=1.0)
WeightAccepted(weight) == RLe(Zero, weight) /\ RLe(weight, One)

\* the mdefs of the configuration, by name
_definition_metrics(definition) ==
    [name \in DOMAIN definition.metrics |->
        MetricDefinition(name, THRESHOLD, definition.metrics[name],
                         _metric_weight(definition, name), _metric_service(name), name)]

\* the mdefs an optimal command is taken to affect
_affected_metrics(mdefs, optimal_cmd) ==
    LET service == DictGet(optimal_cmd, "service", Str("unknown")).str
    IN  {name \in DOMAIN mdefs :
            \/ mdefs[name].service = service
            \/ (service = "grid" /\ Contains(name, "grid"))
            \/ (service = "emergency" /\ (Contains(name, "incident") \/ Contains(name, "emergency")))
            \/ (service = "traffic" /\ (Contains(name, "traffic") \/ Contains(name, "routing")))}

MAX_EXPECTED_IMPACT == Rat(3, 10)

CommandImpact(mdefs, optimal_cmd) ==
    [command |-> optimal_cmd,
     affected_metrics |-> _affected_metrics(mdefs, optimal_cmd),
     expected_impact |->
        [name \in _affected_metrics(mdefs, optimal_cmd) |->
            RMin(MAX_EXPECTED_IMPACT, RMul(mdefs[name].weight, Rat(1, 2)))]]

\* an optimal command becomes a CommandImpact only if it affects some metric
_definition_impacts(mdefs, optimal_commands) ==
    LET kept == SelectSeq(optimal_commands, LAMBDA c : _affected_metrics(mdefs, c) # {})
    IN  [i \in 1 .. Len(kept) |-> CommandImpact(mdefs, kept[i])]

FallbackMetric(name, target, weight, service) ==
    name :> MetricDefinition(name, THRESHOLD, Num(target), weight, service, name)

_fallback_metrics(scenario_type) ==
    CASE scenario_type = "grid_surge" ->
            FallbackMetric("grid_stability", Rat(7, 10), Rat(3, 10), "grid")
            @@ FallbackMetric("incident_response", Rat(8, 10), Rat(4, 10), "emergency")
            @@ FallbackMetric("traffic_flow", Rat(6, 10), Rat(3, 10), "traffic")
      [] scenario_type = "medical_emergency" ->
            FallbackMetric("incident_response", Rat(9, 10), Rat(5, 10), "emergency")
            @@ FallbackMetric("emergency_routing", Rat(8, 10), Rat(5, 10), "traffic")
      [] OTHER -> FallbackMetric("overall_coordination", Rat(7, 10), One, "system")

\* the ScenarioEvaluation evaluate_scenario_commands builds, or the ValidationError of
\* a MetricDefinition whose weight is refused
_evaluation_config(scn) ==
    IF "fallback" \in DOMAIN scn
    THEN Returned([metrics |-> _fallback_metrics(scn.fallback), optimal_commands |-> <<>>])
    ELSE LET mdefs == _definition_metrics(scn)
         IN  IF \E name \in DOMAIN mdefs : ~WeightAccepted(mdefs[name].weight)
             THEN Raised("ValidationError")
             ELSE Returned([metrics |-> mdefs,
                            optimal_commands |-> _definition_impacts(mdefs, scn.optimal_commands)])

\* _calculate_current_metrics: a metric without a registered calculator is 0.0
_calculate_current_metrics(config, st) ==
    [name \in DOMAIN config.metrics |->
        IF config.metrics[name].calculation \in CalculatorNames
        THEN Calculate(config.metrics[name].calculation, st)
        ELSE Zero]

\* the comparison and division of a threshold metric need a number for a target
_threshold_raises(target) == ~IsNumber(target)

\* min_val, max_val = metric.target needs a pair
_range_raises(target) == ~(IsList(target) /\ Len(target.list) = 2)

\* min(1.0, current / target if target != 0 else 0)
_threshold_progress(current, target) ==
    IF target # Zero THEN RMin(One, RDiv(current, target)) ELSE Zero

_progress_entry(metric, current) ==
    IF metric.type = THRESHOLD
    THEN [current |-> current,
          target |-> metric.target,
          achieved |-> RLe(NumOf(metric.target), current),
          progress |-> _threshold_progress(current, NumOf(metric.target))]
    ELSE LET in_range == /\ RLe(metric.target.list[1], current)
                         /\ RLe(current, metric.target.list[2])
         IN  [current |-> current,
              target |-> metric.target,
              achieved |-> in_range,
              progress |-> IF in_range THEN One ELSE Zero]

\* _calculate_metric_progress: an entry per threshold or range metric, or the TypeError
\* of a target the comparison cannot take
_calculate_metric_progress(config, current_metrics) ==
    LET typed == {name \in DOMAIN config.metrics : config.metrics[name].type \in {THRESHOLD, RANGE}}
    IN  IF \E name \in typed :
            \/ config.metrics[name].type = THRESHOLD /\ _threshold_raises(config.metrics[name].target)
            \/ config.metrics[name].type = RANGE /\ _range_raises(config.metrics[name].target)
        THEN Raised("TypeError")
        ELSE Returned([name \in typed |-> _progress_entry(config.metrics[name], current_metrics[name])])

\* the first issued command that matches the optimal command, 0 if none does
_first_match(commands, optimal) ==
    LET hits == {i \in 1 .. Len(commands) : _commands_match(commands[i], optimal)}
    IN  IF hits = {} THEN 0 ELSE CHOOSE i \in hits : \A j \in hits : i <= j

_compare_with_optimal(config, commands) ==
    LET optimal_commands == [i \in 1 .. Len(config.optimal_commands) |-> config.optimal_commands[i].command]
        matches == [i \in 1 .. Len(optimal_commands) |->
                        LET hit == _first_match(commands, optimal_commands[i])
                        IN  [optimal |-> optimal_commands[i],
                             executed |-> IF hit = 0 THEN None ELSE commands[hit],
                             match |-> hit # 0]]
        match_count == Cardinality({i \in 1 .. Len(matches) : matches[i].match})
    IN  [matches |-> matches,
         match_count |-> match_count,
         total_optimal |-> Len(optimal_commands),
         score |-> IF Len(optimal_commands) > 0 THEN Rat(match_count, Len(optimal_commands))
                   ELSE Zero]

METRIC_SHARE == Rat(85, 100)
OPTIMAL_SHARE == Rat(15, 100)

\* the weighted mean of the progress of the metrics that have an entry
_metric_score(config, metric_progress) ==
    LET scored == DOMAIN config.metrics \cap DOMAIN metric_progress
        weighted == RSum([name \in scored |->
                            RMul(metric_progress[name].progress, config.metrics[name].weight)], scored)
        total_weight == RSum([name \in scored |-> config.metrics[name].weight], scored)
    IN  IF RLt(Zero, total_weight) THEN RDiv(weighted, total_weight) ELSE weighted

_calculate_overall_score(config, metric_progress, optimal_comparison) ==
    RAdd(RMul(METRIC_SHARE, _metric_score(config, metric_progress)),
         RMul(OPTIMAL_SHARE, optimal_comparison.score))

\* the names of the metrics of a service: _analyze_command_impact's service_metrics
_service_metrics(config, service) ==
    {name \in DOMAIN config.metrics : Str(config.metrics[name].service) = service}

\* the entry of command_impacts for one issued command
_evaluate_command_impact(config, cmd) ==
    LET hits == {i \in 1 .. Len(config.optimal_commands) :
                    _commands_match(cmd, config.optimal_commands[i].command)}
    IN  IF hits # {}
        THEN LET optimal == config.optimal_commands[CHOOSE i \in hits : \A j \in hits : i <= j]
             IN  [command |-> cmd,
                  optimal_match |-> TRUE,
                  affected_metrics |-> optimal.affected_metrics]
        ELSE [command |-> cmd,
              optimal_match |-> FALSE,
              affected_metrics |-> _service_metrics(config, DictGet(cmd, "service", Str("")))]

\* CommandEvaluator.evaluate_commands(commands, normalized state)
evaluate_commands(config, commands, st) ==
    LET current_metrics == _calculate_current_metrics(config, st)
        metric_progress == _calculate_metric_progress(config, current_metrics)
        optimal_comparison == _compare_with_optimal(config, commands)
    IN  IF HasRaised(metric_progress) THEN metric_progress
        ELSE Returned(
            [current_metrics |-> current_metrics,
             command_impacts |-> [i \in 1 .. Len(commands) |-> _evaluate_command_impact(config, commands[i])],
             metric_progress |-> metric_progress.value,
             optimal_comparison |-> optimal_comparison,
             overall_score |-> _calculate_overall_score(config, metric_progress.value, optimal_comparison)])

\* evaluate_scenario_commands(commands, ..., current_state, scenario_definition);
\* a current_state of None is evaluated as {}
evaluate_scenario_commands(commands, scn, current_state) ==
    LET config == _evaluation_config(scn)
    IN  IF HasRaised(config) THEN config
        ELSE evaluate_commands(config.value, commands,
                               _normalize_state(IF IsNone(current_state) THEN EmptyDict
                                                ELSE current_state))

-----------------------------------------------------------------------------
(* Specification SpecMatch: one call of _commands_match on a pair of       *)
(* commands drawn from the bounded sets below.                             *)

MaxCenti == 100
NegCenti == 10
CentiValues == (0 - NegCenti) .. MaxCenti

AdjustZone(params) == Cmd("grid", "adjust_zone", params)

\* issued and optimal adjust_zone commands that differ in a numeric capacity
NumericPairs ==
    { <<AdjustZone([capacity |-> Num(Centi(v))]), AdjustZone([capacity |-> Num(Centi(o))])>> :
        v \in CentiValues, o \in CentiValues }

\* pairs that differ in service, action, keys or string values
StructuralCmds ==
    { AdjustZone(EmptyDict),
      AdjustZone([zone_id |-> Str("Z1"), capacity |-> Num(Centi(80))]),
      AdjustZone([zone_id |-> Str("z1"), capacity |-> Num(Centi(82))]),
      AdjustZone([zone_id |-> Str("Z2"), capacity |-> Num(Centi(80))]),
      AdjustZone([zone_id |-> Str("Z1")]),
      Cmd("grid", "set_priority", [infrastructure_id |-> Str("hospital"), level |-> Str("HIGH")]),
      Cmd("grid", "set_priority", [infrastructure_id |-> Str("hospital"), level |-> Str("high")]),
      Cmd("traffic", "redirect", [sector_id |-> Str("S1"), target_reduction |-> Num(Centi(50))]),
      Cmd("emergency", "assign_drone", [drone_id |-> Str("D1"), incident_id |-> Str("I1")]),
      Cmd("grid", "set_priority", [level |-> Str("high"), note |-> Str("ward 3")]),
      Cmd("grid", "set_priority", [level |-> Str("low"), note |-> Str("ward 3")]),
      Cmd("grid", "set_priority", None),
      [service |-> Str("grid"), action |-> Str("set_priority")],
      AdjustZone([zone_id |-> Str("Z1"), capacity |-> Str("high")]),
      AdjustZone([zone_id |-> Str("Z1"), capacity |-> Bool(TRUE)]) }

StructuralPairs == StructuralCmds \X StructuralCmds

MatchInit ==
    /\ \E p \in NumericPairs \cup StructuralPairs : cmd1 = p[1] /\ cmd2 = p[2]
    /\ matched = NotRun
    /\ state = Idle /\ metrics = Idle /\ lastPower = Idle
    /\ raw = Idle /\ norm1 = Idle /\ norm2 = Idle
    /\ command = Idle /\ execResult = Idle /\ sent = Idle
    /\ issued = Idle /\ scenario = Idle /\ curState = Idle /\ evalResult = Idle
    /\ tasks = Idle /\ converted = Idle /\ agentOut = Idle /\ extracted = Idle
    /\ ctorArgs = Idle /\ constructed = Idle
    /\ emergency_incidents = Idle /\ drone_fleet = Idle /\ otherServices = Idle /\ acceptedCount = Idle /\ firstAccepted = Idle /\ evaluations = Idle
    /\ grid_zones = Idle /\ critical_infrastructure = Idle /\ traffic_sectors = Idle /\ served = Idle
    /\ initial_state = Idle /\ activated = Idle /\ system_status = Idle

Match ==
    /\ matched = NotRun
    /\ \E b \in _commands_match_outcomes(cmd1, cmd2) : matched' = Returned(b)
    /\ UNCHANGED <<cmd1, cmd2>>
    /\ UNCHANGED <<metricVars, normVars, execVars, evalVars, convVars, ctorVars, svcVars, cityVars, actVars>>

MatchNext == Match

SpecMatch == MatchInit /\ [][MatchNext]_vars

\* the pair under comparison differs at most in a numeric "capacity"
CapacityCase ==
    /\ cmd1.service = cmd2.service /\ cmd1.action = cmd2.action
    /\ "parameters" \in DOMAIN cmd1 /\ "parameters" \in DOMAIN cmd2
    /\ DOMAIN cmd1.parameters = {"capacity"} /\ DOMAIN cmd2.parameters = {"capacity"}
    /\ "num" \in DOMAIN cmd1.parameters.capacity
    /\ "num" \in DOMAIN cmd2.parameters.capacity

\* a capacity in hundredths
CentiOf(v) == (v.num[1] * 100) \div v.num[2]
IssuedCenti == CentiOf(cmd1.parameters.capacity)
OptimalCenti == CentiOf(cmd2.parameters.capacity)

\* C1 as stated: a numeric value v matches the optimal value o exactly when
\* |v - o| is at most 20% of |o|  (5*|v - o| <= |o|); optimal capacity 0.8
\* matches issued 0.82 and does not match issued 0.95.
C1_Original ==
    (HasReturned(matched) /\ CapacityCase) =>
        /\ matched.value <=> 5 * Abs(IssuedCenti - OptimalCenti) <= Abs(OptimalCenti)
        /\ (OptimalCenti = 80 /\ IssuedCenti = 82) => matched.value
        /\ (OptimalCenti = 80 /\ IssuedCenti = 95) => ~matched.value

\* max(|o|, 0.1) in hundredths
FlooredOptimalCenti == IF Abs(OptimalCenti) < 10 THEN 10 ELSE Abs(OptimalCenti)

\* C1 amended: a numeric value v matches the optimal value o when |v - o| is
\* less than 20% of max(|o|, 0.1) and does not match when it is more (at exactly
\* 20% the float rounding decides); optimal capacity 0.8 matches issued 0.82 and
\* issued 0.95 (0.15/0.8 = 0.1875) and does not match issued 0.97.
C1_ToleranceWithFloor ==
    (HasReturned(matched) /\ CapacityCase) =>
        /\ 5 * Abs(IssuedCenti - OptimalCenti) < FlooredOptimalCenti => matched.value
        /\ 5 * Abs(IssuedCenti - OptimalCenti) > FlooredOptimalCenti => ~matched.value
        /\ (OptimalCenti = 80 /\ IssuedCenti = 82) => matched.value
        /\ (OptimalCenti = 80 /\ IssuedCenti = 95) => matched.value
        /\ (OptimalCenti = 80 /\ IssuedCenti = 97) => ~matched.value

\* C1 witness: an optimal value below 0.1 matched by a value further than 20% of it
C1_Witness ==
    /\ matched = Returned(TRUE) /\ CapacityCase
    /\ OptimalCenti = 4 /\ IssuedCenti = 5

-----------------------------------------------------------------------------
(* Specification SpecMetrics: the twelve calculators applied to a          *)
(* normalized state drawn from the bounded pools below.                    *)

UnitSteps == 2
SquareSteps == 2
\* values of [0,1] for a stability
UnitValues == {Rat(k, UnitSteps) : k \in 0 .. UnitSteps}
\* values of [0,1] for a congestion level, squares so that c ** 1.5 is exact
CongestionValues == {Rat(k * k, SquareSteps * SquareSteps) : k \in 0 .. SquareSteps}

\* entities as _normalize_state writes them
NZone(id, stability, capacity, load, critical) ==
    [id |-> Str(id), stability |-> Num(stability), capacity_kw |-> Num(capacity),
     current_load_kw |-> Num(load), is_critical |-> Bool(critical),
     status |-> Str("normal"), zone_id |-> Str(id)]
NIncident(id, status, drone, zone) ==
    [id |-> Str(id), status |-> Str(status), assigned_drone |-> drone, zone |-> Str(zone),
     urgency |-> Num(Centi(99)), description |-> Str("")]
NDrone(id, status) ==
    [id |-> Str(id), status |-> Str(status), capabilities |-> [list |-> <<>>],
     speed |-> Num(One), assigned_incident |-> None]
NSector(id, congestion, blocked) ==
    [id |-> Str(id), zone_id |-> Str(id), congestion_level |-> Num(congestion),
     is_blocked |-> Bool(blocked), description |-> Str("")]

LoadProfiles == {<<Zero, Zero>>, <<Whole(100), Zero>>, <<Whole(100), Whole(120)>>}

ZonePool ==
    {EmptyDict}
    \cup {"Z1" :> NZone("Z1", s, Whole(100), Whole(70), c) : s \in UnitValues, c \in BOOLEAN}
    \cup {"Z1" :> NZone("Z1", Centi(50), p[1], p[2], FALSE) : p \in LoadProfiles}
    \cup {("Z1" :> NZone("Z1", s, Whole(100), Whole(98), TRUE))
            @@ ("Z2" :> NZone("Z2", One, Whole(100), Whole(30), FALSE)) : s \in {Zero, One}}

InfrastructurePool ==
    {EmptyDict,
     ("hospital" :> [level |-> Str("critical")]) @@ ("school" :> [level |-> Str("high")])
        @@ ("mall" :> [level |-> Str("low")])}

IncidentStatuses == {"active", "assigned", "in_progress", "resolved", "canceled"}

IncidentPool ==
    {EmptyDict}
    \cup {"I1" :> NIncident("I1", status, drone, "Z1") :
            status \in IncidentStatuses, drone \in {None, Str("D1")}}
    \cup {("I1" :> NIncident("I1", "in_progress", Str("D1"), "Z1"))
            @@ ("I2" :> NIncident("I2", status, None, "Z9")) : status \in {"active", "resolved"}}

DronePool ==
    {EmptyDict}
    \cup {"D1" :> NDrone("D1", status) : status \in {"available", "assigned", "disabled"}}
    \cup {("D1" :> NDrone("D1", "on_site")) @@ ("D2" :> NDrone("D2", status)) :
            status \in {"available", "en_route"}}

TrafficPool ==
    {EmptyDict}
    \cup {"S1" :> NSector("S1", c, b) : c \in CongestionValues, b \in BOOLEAN}
    \cup {("S1" :> NSector("S1", c, FALSE)) @@ ("S2" :> NSector("S2", Centi(49), b)) :
            c \in {Zero, Centi(64)}, b \in BOOLEAN}

NormalizedStates ==
    {[zones |-> z, incidents |-> i, drones |-> d, traffic |-> t, infrastructure |-> f] :
        z \in ZonePool, i \in IncidentPool, d \in DronePool, t \in TrafficPool,
        f \in InfrastructurePool}

MetricsInit ==
    /\ state \in NormalizedStates
    /\ metrics = NotRun
    /\ lastPower = Idle
    /\ cmd1 = Idle /\ cmd2 = Idle /\ matched = Idle
    /\ raw = Idle /\ norm1 = Idle /\ norm2 = Idle
    /\ command = Idle /\ execResult = Idle /\ sent = Idle
    /\ issued = Idle /\ scenario = Idle /\ curState = Idle /\ evalResult = Idle
    /\ tasks = Idle /\ converted = Idle /\ agentOut = Idle /\ extracted = Idle
    /\ ctorArgs = Idle /\ constructed = Idle
    /\ emergency_incidents = Idle /\ drone_fleet = Idle /\ otherServices = Idle /\ acceptedCount = Idle /\ firstAccepted = Idle /\ evaluations = Idle
    /\ grid_zones = Idle /\ critical_infrastructure = Idle /\ traffic_sectors = Idle /\ served = Idle
    /\ initial_state = Idle /\ activated = Idle /\ system_status = Idle

\* every registered calculator is invoked on the state
CalculateAll ==
    /\ metrics = NotRun
    /\ metrics' = Returned([name \in CalculatorNames |-> Calculate(name, state)])
    /\ UNCHANGED <<state, lastPower>>
    /\ UNCHANGED <<matchVars, normVars, execVars, evalVars, convVars, ctorVars, svcVars, cityVars, actVars>>

MetricsNext == CalculateAll

SpecMetrics == MetricsInit /\ [][MetricsNext]_vars

\* C4: each of the twelve metric calculators returns a value in [0,1] for every
\* normalized state whose fields are within their declared ranges, empty
\* collections included.
C4_RangeInvariant ==
    HasReturned(metrics) => \A name \in CalculatorNames : InUnit(metrics.value[name])

\* C4 witness: the calculators have run on a state whose incident is assigned and in
\* progress (base score 1 plus bonus, held at 1 by the clamp)
C4_Witness ==
    /\ HasReturned(metrics)
    /\ DOMAIN state.incidents = {"I1"}
    /\ state.incidents["I1"].status = Str("in_progress")
    /\ state.incidents["I1"].assigned_drone = Str("D1")
    /\ DOMAIN state.traffic = {}
    /\ metrics.value["incident_response"] = One

\* C4 witness of the empty case is part of the same run: every collection empty
C4_EmptyReached ==
    /\ HasReturned(metrics)
    /\ DOMAIN state.zones = {} /\ DOMAIN state.incidents = {}
    /\ DOMAIN state.drones = {} /\ DOMAIN state.traffic = {}

-----------------------------------------------------------------------------
(* Specification SpecPower: power_conservation recomputed while the load   *)
(* of a zone changes; lastPower remembers the calculation before.          *)

MaxLoadStep == 20
\* loads of a zone of capacity 100, in steps of 5
LoadValues == {Whole(5 * k) : k \in 0 .. MaxLoadStep}

PowerZones(load, withSecond) ==
    IF withSecond
    THEN ("Z1" :> NZone("Z1", One, Whole(100), load, FALSE))
            @@ ("Z2" :> NZone("Z2", One, Whole(100), Whole(85), FALSE))
    ELSE "Z1" :> NZone("Z1", One, Whole(100), load, FALSE)

PowerInit ==
    /\ \E load \in LoadValues, withSecond \in BOOLEAN :
          state = [zones |-> PowerZones(load, withSecond), incidents |-> EmptyDict,
                   drones |-> EmptyDict, traffic |-> EmptyDict, infrastructure |-> EmptyDict]
    /\ metrics = NotRun
    /\ lastPower = NotRun
    /\ cmd1 = Idle /\ cmd2 = Idle /\ matched = Idle
    /\ raw = Idle /\ norm1 = Idle /\ norm2 = Idle
    /\ command = Idle /\ execResult = Idle /\ sent = Idle
    /\ issued = Idle /\ scenario = Idle /\ curState = Idle /\ evalResult = Idle
    /\ tasks = Idle /\ converted = Idle /\ agentOut = Idle /\ extracted = Idle
    /\ ctorArgs = Idle /\ constructed = Idle
    /\ emergency_incidents = Idle /\ drone_fleet = Idle /\ otherServices = Idle /\ acceptedCount = Idle /\ firstAccepted = Idle /\ evaluations = Idle
    /\ grid_zones = Idle /\ critical_infrastructure = Idle /\ traffic_sectors = Idle /\ served = Idle
    /\ initial_state = Idle /\ activated = Idle /\ system_status = Idle

\* the calculator is invoked on the state
MeasurePower ==
    /\ metrics = NotRun
    /\ metrics' = Returned([power_conservation |-> _calculate_power_conservation(state)])
    /\ UNCHANGED <<state, lastPower>>
    /\ UNCHANGED <<matchVars, normVars, execVars, evalVars, convVars, ctorVars, svcVars, cityVars, actVars>>

\* the load of zone Z1 changes after a calculation
ChangeLoad ==
    /\ HasReturned(metrics)
    /\ \E load \in LoadValues :
          state' = [state EXCEPT !.zones["Z1"].current_load_kw = Num(load)]
    /\ lastPower' = Returned([ratio |-> _load_ratio(state),
                              score |-> metrics.value.power_conservation])
    /\ metrics' = NotRun
    /\ UNCHANGED <<matchVars, normVars, execVars, evalVars, convVars, ctorVars, svcVars, cityVars, actVars>>

PowerNext == MeasurePower \/ ChangeLoad

SpecPower == PowerInit /\ [][PowerNext]_vars

\* the two calculations to compare: the one before and the current one
BothMeasured == HasReturned(lastPower) /\ HasReturned(metrics)
RatioBefore == lastPower.value.ratio
ScoreBefore == lastPower.value.score
RatioNow == _load_ratio(state)
ScoreNow == metrics.value.power_conservation

\* C5: for load ratios r1 <= r2 both in [0, 0.85] the score at r1 is <= the score at
\* r2, and for r1 <= r2 both in [0.85, 1] the score at r1 is >= the score at r2.
C5_Monotone ==
    BothMeasured =>
        /\ (RLe(Zero, RatioBefore) /\ RLe(RatioBefore, RatioNow) /\ RLe(RatioNow, Centi(85)))
              => RLe(ScoreBefore, ScoreNow)
        /\ (RLe(Centi(85), RatioBefore) /\ RLe(RatioBefore, RatioNow) /\ RLe(RatioNow, One))
              => RLe(ScoreNow, ScoreBefore)

\* the half of C5 the code satisfies: non-increasing on [0.85, 1]
C5_UpperHalf ==
    BothMeasured =>
        ((RLe(Centi(85), RatioBefore) /\ RLe(RatioBefore, RatioNow) /\ RLe(RatioNow, One))
              => RLe(ScoreNow, ScoreBefore))


-----------------------------------------------------------------------------
(* Specification SpecNormalize: _normalize_state applied to a raw state,   *)
(* then applied again to its own output.  The raw states vary one          *)
(* collection at a time, since the normalizer treats them independently.   *)

NormSteps == 1

NormNums == {Num(Rat(k, 2)) : k \in 0 .. NormSteps}
NormBools == {Bool(b) : b \in BOOLEAN}

\* a field that is absent or carries one of the values
Opt(name, values) == {EmptyDict} \cup {name :> v : v \in values}
Merge(A, B) == {a @@ b : a \in A, b \in B}

RawZoneFields ==
    Merge(Merge(Opt("capacity_kw", NormNums), Opt("capacity", NormNums)),
          Merge(Merge(Opt("current_load_kw", NormNums), Opt("current_load", {Num(Rat(1, 2))})),
                Opt("stability", {Num(Rat(1, 2))})))

RawSectorFields ==
    Merge(Merge(Opt("congestion_level", NormNums), Opt("congestion", NormNums)),
          Merge(Opt("is_blocked", NormBools), Opt("blocked", NormBools)))

RawIncidentFields ==
    Merge(Merge(Opt("status", {Str("assigned")}), Opt("assigned_drone", {None, Str("D1")})),
          Merge(Opt("zone", {Str("Z1")}), Opt("location", {Str("Z2")})))

RawDroneFields ==
    Merge(Opt("status", {Str("assigned")}), Opt("speed", {Num(Rat(1, 2))}))

\* the ways a list entry names itself
IdStyles(names, id) == {EmptyDict} \cup {n :> Str(id) : n \in names}

\* the shapes of a collection holding the entities: a dict under the id, a list of one,
\* a list of two whose first entry carries another id, a dict with a non-dict entry
Shapes(fields, names, id, other) ==
    {id :> e : e \in fields}
    \cup {[list |-> <<s @@ e>>] : s \in IdStyles(names, id), e \in fields}
    \cup {[list |-> <<("id" :> Str(other)), ("id" :> Str(id)) @@ e>>] :
            e \in {f \in fields : DOMAIN f = {}} \cup {f \in fields : Cardinality(DOMAIN f) = 1}}
    \cup {("error" :> Str("unavailable")), EmptyDict, EmptyList}

RawZoneStates ==
    LET shapes == Shapes(RawZoneFields, {"id", "zone_id"}, "Z1", "Z2")
    IN  {"zones" :> z : z \in shapes}
        \cup {"grid" :> (("zones" :> z) @@ ("infrastructure" :> ("hospital" :> Str("operational")))) :
                z \in shapes}

RawTrafficStates ==
    LET shapes == Shapes(RawSectorFields, {"id", "zone_id", "sector_id"}, "S1", "S2")
    IN  {"traffic" :> t : t \in shapes}
        \cup {"traffic_management" :> t : t \in shapes}
        \cup {("traffic" :> EmptyDict) @@ ("traffic_management" :> t) :
                t \in {("S1" :> ("congestion" :> Num(Rat(1, 2))))}}

RawEmergencyStates ==
    LET incidents == Shapes(RawIncidentFields, {"id", "incident_id"}, "I1", "I2")
        drones == Shapes(RawDroneFields, {"id", "drone_id"}, "D1", "D2")
    IN  {"incidents" :> i : i \in incidents}
        \cup {"emergency" :> ("incidents" :> i) : i \in incidents}
        \cup {"drones" :> d : d \in drones}
        \cup {"emergency" :> ("drones" :> d) : d \in drones}
        \cup {"emergency" :> ("error" :> Str("connection failed"))}

RawStates == RawZoneStates \cup RawTrafficStates \cup RawEmergencyStates

NormalizeInit ==
    /\ raw \in RawStates
    /\ norm1 = NotRun
    /\ norm2 = NotRun
    /\ cmd1 = Idle /\ cmd2 = Idle /\ matched = Idle
    /\ state = Idle /\ metrics = Idle /\ lastPower = Idle
    /\ command = Idle /\ execResult = Idle /\ sent = Idle
    /\ issued = Idle /\ scenario = Idle /\ curState = Idle /\ evalResult = Idle
    /\ tasks = Idle /\ converted = Idle /\ agentOut = Idle /\ extracted = Idle
    /\ ctorArgs = Idle /\ constructed = Idle
    /\ emergency_incidents = Idle /\ drone_fleet = Idle /\ otherServices = Idle /\ acceptedCount = Idle /\ firstAccepted = Idle /\ evaluations = Idle
    /\ grid_zones = Idle /\ critical_infrastructure = Idle /\ traffic_sectors = Idle /\ served = Idle
    /\ initial_state = Idle /\ activated = Idle /\ system_status = Idle

\* _normalize_state(raw)
Normalize ==
    /\ norm1 = NotRun
    /\ norm1' = Returned(_normalize_state(raw))
    /\ UNCHANGED <<raw, norm2>>
    /\ UNCHANGED <<matchVars, metricVars, execVars, evalVars, convVars, ctorVars, svcVars, cityVars, actVars>>

\* _normalize_state applied to the state the first call returned
Renormalize ==
    /\ HasReturned(norm1)
    /\ norm2 = NotRun
    /\ norm2' = Returned(_normalize_state(norm1.value))
    /\ UNCHANGED <<raw, norm1>>
    /\ UNCHANGED <<matchVars, metricVars, execVars, evalVars, convVars, ctorVars, svcVars, cityVars, actVars>>

NormalizeNext == Normalize \/ Renormalize

SpecNormalize == NormalizeInit /\ [][NormalizeNext]_vars

\* C6: normalizing a state that is already normalized returns an equal state.
C6_Idempotent ==
    HasReturned(norm2) => norm2.value = norm1.value

\* C6 witness: a list of sectors under the alias names has been normalized twice
C6_Witness ==
    /\ HasReturned(norm2)
    /\ "traffic_management" \in DOMAIN raw
    /\ IsList(raw["traffic_management"])
    /\ Len(raw["traffic_management"].list) = 1
    /\ DOMAIN raw["traffic_management"].list[1] = {"sector_id", "congestion", "blocked"}
    /\ raw["traffic_management"].list[1]["congestion"] = Num(Rat(1, 2))
    /\ norm2.value.traffic["S1"].congestion_level = Num(Rat(1, 2))

\* the entities of a raw collection that carry an id, each with its id
RawEntities(coll, IdOf(_)) ==
    IF IsList(coll)
    THEN {<<IdOf(coll.list[i]).str, coll.list[i]>> :
            i \in {j \in 1 .. Len(coll.list) : Truthy(IdOf(coll.list[j]))}}
    ELSE {<<k, coll[k]>> : k \in {j \in DOMAIN coll : IsDict(coll[j])}}

\* the output entity carries the input's canonical field, or its alias when the
\* canonical field is absent
Carried(out, e, canonical, alias) ==
    /\ canonical \in DOMAIN e => out[canonical] = e[canonical]
    /\ (canonical \notin DOMAIN e /\ alias \in DOMAIN e) => out[canonical] = e[alias]

\* C7: every input entity with an id appears in the output, and each normalized
\* field holds the canonical field's value when it is present (0 and false
\* included) and the alias's value only when the canonical field is absent.
C7_Lossless ==
    HasReturned(norm1) =>
        /\ \A p \in RawEntities(_raw_zones(raw), _zone_list_id) :
            /\ p[1] \in DOMAIN norm1.value.zones
            /\ Carried(norm1.value.zones[p[1]], p[2], "capacity_kw", "capacity")
            /\ Carried(norm1.value.zones[p[1]], p[2], "current_load_kw", "current_load")
        /\ \A p \in RawEntities(_raw_traffic(raw), _sector_list_id) :
            /\ p[1] \in DOMAIN norm1.value.traffic
            /\ Carried(norm1.value.traffic[p[1]], p[2], "congestion_level", "congestion")
            /\ Carried(norm1.value.traffic[p[1]], p[2], "is_blocked", "blocked")
        /\ \A p \in RawEntities(_raw_incidents(raw), _incident_list_id) :
            p[1] \in DOMAIN norm1.value.incidents
        /\ \A p \in RawEntities(_raw_drones(raw), _drone_list_id) :
            p[1] \in DOMAIN norm1.value.drones

-----------------------------------------------------------------------------
(* Specification SpecExecute: one call of CommandExecutor.execute on a     *)
(* Command the constructor accepts, against a service that answers in one  *)
(* of the four ways.                                                       *)

ExecSteps == 4

\* parameter values a Dict[str, Any] can hold: numbers around [0,1], numeric and other
\* strings, null, a boolean
UnitParamValues ==
    {Num(Rat(k, ExecSteps)) : k \in (0 - 1) .. (ExecSteps + 1)}
    \cup {Str("0.5"), Str("1.5"), Str("high"), None, Bool(TRUE)}

DurationParamValues ==
    {Num(Whole(n)) : n \in {4, 5, 1440, 1441}}
    \cup {Num(Rat(11, 2)), Num(Rat(9, 2)), Num(Rat(2881, 2)), Str("30"), Str("soon"), None}

\* Command.validate_action: allowed_actions
AllowedActions ==
    [grid |-> {"adjust_zone", "set_priority", "report_status"},
     emergency |-> {"assign_drone", "update_incident", "report_status"},
     traffic |-> {"redirect", "report_conditions", "block_route"}]

ParamMaps(service, action) ==
    CASE service = "grid" /\ action = "adjust_zone" ->
            Merge(Opt("zone_id", {Str("Z1")}), Opt("capacity", UnitParamValues))
      [] service = "grid" /\ action = "set_priority" ->
            Merge(Opt("infrastructure_id", {Str("hospital")}),
                  Opt("level", {Str("critical"), Str("urgent"), None}))
      [] service = "grid" /\ action = "report_status" -> Opt("zone_id", {Str("Z1")})
      [] service = "emergency" /\ action = "assign_drone" ->
            Merge(Opt("drone_id", {Str("D1")}), Opt("incident_id", {Str("I1"), None}))
      [] service = "emergency" /\ action = "update_incident" ->
            Merge(Opt("incident_id", {Str("I1")}),
                  Opt("status", {Str("resolved"), Str("done"), None}))
      [] service = "emergency" /\ action = "report_status" -> {EmptyDict}
      [] service = "traffic" /\ action = "redirect" ->
            Merge(Opt("sector_id", {Str("S1")}), Opt("target_reduction", UnitParamValues))
      [] service = "traffic" /\ action = "report_conditions" -> {EmptyDict}
      [] service = "traffic" /\ action = "block_route" ->
            Merge(Merge(Opt("sector", {Str("S1")}), Opt("reason", {Str("flood")})),
                  Opt("duration_minutes", DurationParamValues))

Commands ==
    UNION {UNION {{Cmd(service, action, params) : params \in ParamMaps(service, action)} :
                    action \in AllowedActions[service]} :
            service \in DOMAIN AllowedActions}

ExecuteInit ==
    /\ command \in Commands
    /\ execResult = NotRun
    /\ sent = <<>>
    /\ cmd1 = Idle /\ cmd2 = Idle /\ matched = Idle
    /\ state = Idle /\ metrics = Idle /\ lastPower = Idle
    /\ raw = Idle /\ norm1 = Idle /\ norm2 = Idle
    /\ issued = Idle /\ scenario = Idle /\ curState = Idle /\ evalResult = Idle
    /\ tasks = Idle /\ converted = Idle /\ agentOut = Idle /\ extracted = Idle
    /\ ctorArgs = Idle /\ constructed = Idle
    /\ emergency_incidents = Idle /\ drone_fleet = Idle /\ otherServices = Idle /\ acceptedCount = Idle /\ firstAccepted = Idle /\ evaluations = Idle
    /\ grid_zones = Idle /\ critical_infrastructure = Idle /\ traffic_sectors = Idle /\ served = Idle
    /\ initial_state = Idle /\ activated = Idle /\ system_status = Idle

\* CommandExecutor.execute(command)
Execute ==
    /\ execResult = NotRun
    /\ LET prepared == _execute_prepare(command)
       IN  IF "early" \in DOMAIN prepared
           THEN /\ execResult' = prepared.early
                /\ sent' = sent
           ELSE \E behaviour \in ServiceBehaviours :
                /\ sent' = Append(sent, [request |-> prepared.request, answer |-> behaviour])
                /\ execResult' = Returned(_execute_outcome(behaviour))
    /\ UNCHANGED command
    /\ UNCHANGED <<matchVars, metricVars, normVars, evalVars, convVars, ctorVars, svcVars, cityVars, actVars>>

ExecuteNext == Execute

SpecExecute == ExecuteInit /\ [][ExecuteNext]_vars

\* C8: execute never raises: for every constructible Command and every behaviour
\* of the service the call ends with a CommandResult, and a validation, mapping
\* or transport error ends as a result with success = False.
C8_NeverRaises ==
    execResult # NotRun =>
        /\ HasReturned(execResult)
        /\ (sent = <<>> \/ sent[1].answer # "2xx") => execResult.value.success = FALSE

-----------------------------------------------------------------------------
(* Specification SpecEvaluate: one call of evaluate_scenario_commands on a *)
(* command list, a scenario and a current state drawn from the bounded     *)
(* sets below.                                                             *)

EvalSteps == 2

\* numbers around [0,1] in steps of 1/EvalSteps, one step beyond each end
EvalFractions == {Rat(k, EvalSteps) : k \in (0 - 1) .. (EvalSteps + 1)}

\* targets a Dict[str, Any] can hold
TargetValues == {Num(r) : r \in EvalFractions} \cup {None, Str("high")}

OptimalAdjust == Cmd("grid", "adjust_zone", ("zone_id" :> Str("Z1")) @@ ("capacity" :> Num(Rat(8, 10))))
OptimalAssign == Cmd("emergency", "assign_drone", ("drone_id" :> Str("D1")) @@ ("incident_id" :> Str("I1")))
OptimalRedirect ==
    Cmd("traffic", "redirect", ("sector_id" :> Str("S1")) @@ ("target_reduction" :> Num(Rat(1, 2))))
\* the same zone at another capacity
OtherAdjust == Cmd("grid", "adjust_zone", ("zone_id" :> Str("Z1")) @@ ("capacity" :> Num(Rat(1, 2))))
\* dicts that lack fields
NoServiceCmd == ("action" :> Str("adjust_zone")) @@ ("parameters" :> ("zone_id" :> Str("Z1")))
NoActionCmd == ("service" :> Str("grid"))

MetricMaps ==
    {"grid_stability" :> t : t \in TargetValues}
    \cup {("grid_stability" :> t) @@ ("incident_response" :> Num(Rat(1, 2))) : t \in TargetValues}
    \cup {("resource_efficiency" :> Num(Rat(7, 10))),
          ("crowd_safety" :> Num(Rat(9, 10))),
          ("crowd_safety" :> None) @@ ("traffic_flow" :> Num(Rat(6, 10))),
          EmptyDict,
          ("traffic_flow" :> Num(Rat(6, 10))) @@ ("emergency_routing" :> Num(Rat(8, 10)))
              @@ ("security" :> Num(Rat(9, 10)))}

WeightMaps ==
    {EmptyDict, ("grid" :> Zero) @@ ("emergency" :> Zero) @@ ("traffic" :> Zero)}
    \cup {("grid" :> w) @@ ("emergency" :> One) : w \in EvalFractions}

OptimalLists ==
    {<<>>, <<OptimalAdjust>>, <<OptimalAdjust, OptimalAssign>>, <<OptimalRedirect>>,
     <<OptimalAssign, NoServiceCmd>>, <<NoActionCmd>>}

Scenarios ==
    {[metrics |-> m, command_weights |-> w, optimal_commands |-> o] :
        m \in MetricMaps, w \in WeightMaps, o \in OptimalLists}
    \cup {[fallback |-> t] : t \in {"grid_surge", "medical_emergency", "other"}}

CommandLists ==
    {<<>>, <<OptimalAdjust>>, <<OptimalAdjust, OptimalAssign>>, <<OptimalRedirect>>,
     <<OptimalAssign, NoServiceCmd>>, <<OtherAdjust, OptimalAssign>>,
     <<NoActionCmd>>, <<Cmd("grid", "adjust_zone", EmptyDict), OptimalAdjust>>}

\* what get_system_status returns when two services are down
ErrorSnapshot ==
    ("grid" :> ("error" :> Str("unavailable")))
    @@ ("emergency" :> ("error" :> Str("connection failed")))
    @@ ("traffic" :> ("sectors" :> ("S1" :> ("congestion" :> Num(Rat(1, 2))))))

RawCityState ==
    ("grid" :> ("zones" :> [list |-> <<("id" :> Str("Z1")) @@ ("stability" :> Num(Rat(1, 2)))
                                        @@ ("capacity" :> Num(One))
                                        @@ ("current_load" :> Num(Rat(1, 2)))>>]))
    @@ ("emergency" :>
            (("incidents" :> [list |-> <<("id" :> Str("I1")) @@ ("status" :> Str("assigned"))
                                          @@ ("assigned_drone" :> Str("D1"))
                                          @@ ("location" :> Str("Z1"))>>])
             @@ ("drones" :> [list |-> <<("id" :> Str("D1")) @@ ("status" :> Str("assigned"))>>])))
    @@ ("traffic" :> ("S1" :> (("congestion" :> Num(Rat(1, 4))) @@ ("blocked" :> Bool(FALSE)))))

CurrentStates == {None, EmptyDict, ErrorSnapshot, RawCityState}

EvaluateInit ==
    /\ issued \in CommandLists
    /\ scenario \in Scenarios
    /\ curState \in CurrentStates
    /\ evalResult = NotRun
    /\ cmd1 = Idle /\ cmd2 = Idle /\ matched = Idle
    /\ state = Idle /\ metrics = Idle /\ lastPower = Idle
    /\ raw = Idle /\ norm1 = Idle /\ norm2 = Idle
    /\ command = Idle /\ execResult = Idle /\ sent = Idle
    /\ tasks = Idle /\ converted = Idle /\ agentOut = Idle /\ extracted = Idle
    /\ ctorArgs = Idle /\ constructed = Idle
    /\ emergency_incidents = Idle /\ drone_fleet = Idle /\ otherServices = Idle /\ acceptedCount = Idle /\ firstAccepted = Idle /\ evaluations = Idle
    /\ grid_zones = Idle /\ critical_infrastructure = Idle /\ traffic_sectors = Idle /\ served = Idle
    /\ initial_state = Idle /\ activated = Idle /\ system_status = Idle

\* evaluate_scenario_commands(issued, ..., curState, scenario)
Evaluate ==
    /\ evalResult = NotRun
    /\ evalResult' = evaluate_scenario_commands(issued, scenario, curState)
    /\ UNCHANGED <<issued, scenario, curState>>
    /\ UNCHANGED <<matchVars, metricVars, normVars, execVars, convVars, ctorVars, svcVars, cityVars, actVars>>

EvaluateNext == Evaluate

SpecEvaluate == EvaluateInit /\ [][EvaluateNext]_vars

\* C2: when the issued command list equals the scenario's optimal command list
\* (stated for a list of at least one command), optimal_comparison.score is 1.0,
\* whatever metrics the success criteria declare.
C2_PerfectMatch ==
    (/\ HasReturned(evalResult)
     /\ "optimal_commands" \in DOMAIN scenario
     /\ issued = scenario.optimal_commands
     /\ Len(issued) > 0)
        => evalResult.value.optimal_comparison.score = One

\* the weight-normalised mean of the progress entries of a result, by the weights of
\* the configuration built for the scenario
WeightedMeanProgress ==
    LET mdefs == _evaluation_config(scenario).value.metrics
        progress == evalResult.value.metric_progress
        names == DOMAIN progress
        total == RSum([n \in names |-> mdefs[n].weight], names)
    IN  IF total = Zero THEN Zero
        ELSE RDiv(RSum([n \in names |-> RMul(progress[n].progress, mdefs[n].weight)], names), total)

\* C3: overall_score is 0.85 * weighted mean of metric progress + 0.15 * optimal
\* match score, and lies in [0,1].
C3_OverallScore ==
    HasReturned(evalResult) =>
        /\ evalResult.value.overall_score =
                RAdd(RMul(Rat(85, 100), WeightedMeanProgress),
                     RMul(Rat(15, 100), evalResult.value.optimal_comparison.score))
        /\ InUnit(evalResult.value.overall_score)

\* C9: the evaluation is total: every call ends with a result holding
\* current_metrics, command_impacts, metric_progress, optimal_comparison and
\* overall_score, and none ends in an exception.
C9_Total ==
    evalResult # NotRun =>
        /\ HasReturned(evalResult)
        /\ DOMAIN evalResult.value =
            {"current_metrics", "command_impacts", "metric_progress", "optimal_comparison",
             "overall_score"}

\* C10: evaluating an empty command list ends without an exception, with
\* command_impacts empty, and with optimal_comparison.score 0.0 when the scenario
\* has at least one optimal command.
C10_EmptyInput ==
    (issued = <<>> /\ evalResult # NotRun) =>
        /\ HasReturned(evalResult)
        /\ evalResult.value.command_impacts = <<>>
        /\ ("optimal_commands" \in DOMAIN scenario /\ Len(scenario.optimal_commands) > 0)
                => evalResult.value.optimal_comparison.score = Zero

-----------------------------------------------------------------------------
(* agent_converter.py: CrewAI task outputs to Commands.  A task output is   *)
(* [dict |-> task_output.to_dict(), text |-> str(task_output)]; the text is *)
(* a sequence of sentences, and FragmentPhrases tells which lowercased      *)
(* indicator phrases are substrings of the lowercased sentence.             *)
-----------------------------------------------------------------------------

\* pattern.lower() in sentence.lower(): "rerouted" holds "route", "Gridlock in the
\* zone" does not hold "grid zone"
FragmentPhrases ==
    ("Drone D001 assigned to I1" :> {"drone"}) @@
    ("the drone is on its way" :> {"drone"}) @@
    ("GRID ZONE Z1 lowered" :> {"grid zone"}) @@
    ("Gridlock in the zone" :> {}) @@
    ("Traffic rerouted around S1" :> {"traffic", "route"}) @@
    ("Incident I1 and infrastructure checked" :> {"incident", "infrastructure"}) @@
    ("All clear" :> {})

\* pattern.lower() in output_text.lower()
TextContains(text, pattern) == \E i \in 1..Len(text) : pattern \in FragmentPhrases[text[i]]

tool_patterns ==
    << [pattern |-> "grid zone", action |-> "adjust_zone", service |-> "grid"],
       [pattern |-> "infrastructure", action |-> "set_priority", service |-> "grid"],
       [pattern |-> "drone", action |-> "assign_drone", service |-> "emergency"],
       [pattern |-> "incident", action |-> "update_incident", service |-> "emergency"],
       [pattern |-> "traffic", action |-> "redirect", service |-> "traffic"],
       [pattern |-> "route", action |-> "block_route", service |-> "traffic"] >>

FallbackParameters == "fallback" :> Bool(TRUE)

\* the Commands the call appends: one per pattern of the table found in the text
_extract_fallback_tool_usage(task_output) ==
    LET found == SelectSeq(tool_patterns, LAMBDA p : TextContains(task_output.text, p.pattern))
    IN [i \in 1..Len(found) |-> Cmd(found[i].service, found[i].action, FallbackParameters)]

\* the entries of a plan list that are dicts holding both keys, in order
_plan_entries(entries, k1, k2) ==
    SelectSeq(entries, LAMBDA e : IsDict(e) /\ k1 \in DOMAIN e /\ k2 \in DOMAIN e)

MutPlanCommandsWholeEntry(entries, service, action, k1, k2) ==
    LET ok == _plan_entries(entries, k1, k2)
    IN [i \in 1..Len(ok) |-> Cmd(service, action, ok[i])]

\* one Command per entry of the plan list that holds both keys
_plan_commands(entries, service, action, k1, k2) ==
    LET ok == _plan_entries(entries, k1, k2)
    IN [i \in 1..Len(ok) |-> Cmd(service, action, (k1 :> ok[i][k1]) @@ (k2 :> ok[i][k2]))]

\* block_route renames sector_id to sector and fills in the reason
_route_block_commands(entries, default_reason) ==
    LET ok == _plan_entries(entries, "sector_id", "duration_minutes")
    IN [i \in 1..Len(ok) |->
            Cmd("traffic", "block_route",
                ("sector" :> ok[i]["sector_id"]) @@
                ("reason" :> DictGet(ok[i], "reason", Str(default_reason))) @@
                ("duration_minutes" :> ok[i]["duration_minutes"]))]

\* the Commands of one plan field
_field_commands(field, entries) ==
    CASE field = "zone_adjustments" ->
            _plan_commands(entries, "grid", "adjust_zone", "zone_id", "capacity")
      [] field = "priority_settings" ->
            _plan_commands(entries, "grid", "set_priority", "infrastructure_id", "level")
      [] field = "drone_assignments" ->
            _plan_commands(entries, "emergency", "assign_drone", "drone_id", "incident_id")
      [] field = "incident_updates" ->
            _plan_commands(entries, "emergency", "update_incident", "incident_id", "status")
      [] field = "traffic_redirections" ->
            _plan_commands(entries, "traffic", "redirect", "sector_id", "target_reduction")
      [] field = "route_blocks" -> _route_block_commands(entries, "Emergency access")

\* the two loops of one plan branch: task_dict.get(field, []) is iterated, and a
\* field that is None ends the task with a TypeError; what was appended stays
_plan_branch(task_dict, f1, f2) ==
    LET a == DictGet(task_dict, f1, EmptyList)
        b == DictGet(task_dict, f2, EmptyList)
    IN  IF ~IsList(a) THEN <<>>
        ELSE _field_commands(f1, a.list)
                \o (IF ~IsList(b) THEN <<>> ELSE _field_commands(f2, b.list))

\* the body of the loop over the task outputs: the Commands one task appends
_task_commands(task_output) ==
    LET task_dict == task_output.dict
        has(k) == k \in DOMAIN task_dict
    IN  IF task_dict = EmptyDict THEN <<>>
        ELSE IF has("zone_adjustments") \/ has("priority_settings")
            THEN _plan_branch(task_dict, "zone_adjustments", "priority_settings")
        ELSE IF has("drone_assignments") \/ has("incident_updates")
            THEN _plan_branch(task_dict, "drone_assignments", "incident_updates")
        ELSE IF has("traffic_redirections") \/ has("route_blocks")
            THEN _plan_branch(task_dict, "traffic_redirections", "route_blocks")
        ELSE _extract_fallback_tool_usage(task_output)

RECURSIVE _tasks_commands(_)
_tasks_commands(tasks_output) ==
    IF tasks_output = <<>> THEN <<>>
    ELSE _task_commands(Head(tasks_output)) \o _tasks_commands(Tail(tasks_output))

\* crew_result is a record of its attributes
convert_agent_results_to_commands(crew_result) ==
    IF "tasks_output" \notin DOMAIN crew_result \/ crew_result.tasks_output = <<>>
    THEN <<>>
    ELSE _tasks_commands(crew_result.tasks_output)

-----------------------------------------------------------------------------
(* scenarios.py: extract_commands_from_output.  The agent output is one of  *)
(* [pydantic |-> fields], [zone_adjustments |-> list], [legacy |-> dict],   *)
(* [matches |-> the regex matches of a string, parsed or not].              *)
-----------------------------------------------------------------------------

PlanFields ==
    << "zone_adjustments", "priority_settings", "drone_assignments", "incident_updates",
       "traffic_redirections", "route_blocks" >>

LegacyKeys == PlanFields \o << "recommendations", "commands", "actions" >>

InvalidJson == [invalid |-> TRUE]

\* the six loops over the fields the pydantic model has; [raised] when a field
\* that is there cannot be iterated
RECURSIVE _pydantic_commands(_, _)
_pydantic_commands(pydantic_output, fields) ==
    IF fields = <<>> THEN [commands |-> <<>>]
    ELSE LET f == Head(fields)
             rest == _pydantic_commands(pydantic_output, Tail(fields))
         IN  IF f \notin DOMAIN pydantic_output THEN rest
             ELSE IF ~IsList(pydantic_output[f]) THEN [raised |-> "TypeError"]
             ELSE IF "raised" \in DOMAIN rest THEN rest
             ELSE [commands |->
                      (IF f = "route_blocks"
                       THEN _route_block_commands(pydantic_output[f].list, "Emergency blocking")
                       ELSE _field_commands(f, pydantic_output[f].list))
                      \o rest.commands]

\* what one item of a legacy list appends; [raised] for the key read without a test
_legacy_item(key, item) ==
    IF ~IsDict(item) THEN [commands |-> <<>>]
    ELSE IF key = "zone_adjustments" /\ "zone_id" \in DOMAIN item
        THEN IF "capacity" \notin DOMAIN item THEN [raised |-> "KeyError"]
             ELSE [commands |->
                     << Cmd("grid", "adjust_zone",
                            ("zone_id" :> item["zone_id"]) @@ ("capacity" :> item["capacity"])) >>]
    ELSE IF key = "drone_assignments" /\ "drone_id" \in DOMAIN item
        THEN IF "incident_id" \notin DOMAIN item THEN [raised |-> "KeyError"]
             ELSE [commands |->
                     << Cmd("emergency", "assign_drone",
                            ("drone_id" :> item["drone_id"]) @@
                            ("incident_id" :> item["incident_id"])) >>]
    ELSE IF "service" \in DOMAIN item /\ "action" \in DOMAIN item
        THEN [commands |-> <<item>>]
    ELSE [commands |-> <<>>]

\* the nested loops of the legacy branch, flattened to (key, item) pairs in order
RECURSIVE _legacy_commands(_, _, _)
_legacy_commands(agent_output, keys, i) ==
    IF keys = <<>> THEN [commands |-> <<>>]
    ELSE LET key == Head(keys)
             items == IF key \in DOMAIN agent_output /\ IsList(agent_output[key])
                      THEN agent_output[key].list ELSE <<>>
         IN  IF i > Len(items) THEN _legacy_commands(agent_output, Tail(keys), 1)
             ELSE LET here == _legacy_item(key, items[i])
                  IN  IF "raised" \in DOMAIN here THEN here
                      ELSE LET rest == _legacy_commands(agent_output, keys, i + 1)
                           IN  IF "raised" \in DOMAIN rest THEN rest
                               ELSE [commands |-> here.commands \o rest.commands]

\* json.loads of each regex match, kept when it has service and action
_string_commands(matches) ==
    SelectSeq(matches, LAMBDA c : c # InvalidJson /\ "service" \in DOMAIN c /\ "action" \in DOMAIN c)

\* (cmd.get("service"), cmd.get("action"), str(sorted(cmd.get("parameters", {}).items())))
_cmd_key(cmd) ==
    << DictGet(cmd, "service", None), DictGet(cmd, "action", None),
       DictGet(cmd, "parameters", EmptyDict) >>

\* the first command of every key, in order
RECURSIVE _unique_commands(_, _)
_unique_commands(commands, seen) ==
    IF commands = <<>> THEN <<>>
    ELSE IF _cmd_key(Head(commands)) \in seen THEN _unique_commands(Tail(commands), seen)
    ELSE <<Head(commands)>>
            \o _unique_commands(Tail(commands), seen \cup {_cmd_key(Head(commands))})

extract_commands_from_output(agent_output) ==
    LET got ==
            IF "pydantic" \in DOMAIN agent_output
                THEN _pydantic_commands(agent_output.pydantic, PlanFields)
            ELSE IF "zone_adjustments" \in DOMAIN agent_output
                THEN IF ~IsList(agent_output.zone_adjustments) THEN [raised |-> "TypeError"]
                     ELSE [commands |->
                             _field_commands("zone_adjustments", agent_output.zone_adjustments.list)]
            ELSE IF "legacy" \in DOMAIN agent_output
                THEN _legacy_commands(agent_output.legacy, LegacyKeys, 1)
            ELSE IF "matches" \in DOMAIN agent_output
                THEN [commands |-> _string_commands(agent_output.matches)]
            ELSE [commands |-> <<>>]
    IN  IF "raised" \in DOMAIN got THEN Raised(got.raised)
        ELSE IF \E i \in 1..Len(got.commands) :
                    "parameters" \in DOMAIN got.commands[i]
                        /\ ~IsDict(got.commands[i].parameters)
            THEN Raised("AttributeError")
        ELSE Returned(_unique_commands(got.commands, {}))

-----------------------------------------------------------------------------
(* Specification of the converter: a crew result is converted once.         *)
-----------------------------------------------------------------------------

MaxEntries == 2
MaxTasks == 2

SeqsUpTo(S, n) == UNION {[1..k -> S] : k \in 0..n}

ZoneEntries ==
    { ("zone_id" :> Str("Z1")) @@ ("capacity" :> Num(Rat(8, 10))),
      ("zone_id" :> Str("Z2")) @@ ("capacity" :> Num(Rat(1, 2))) @@ ("note" :> Str("shed")),
      "zone_id" :> Str("Z3"),
      Str("Z1 to 0.8") }

DroneEntry == ("drone_id" :> Str("D001")) @@ ("incident_id" :> Str("I1"))
UpdateEntry == ("incident_id" :> Str("I1")) @@ ("status" :> Str("in_progress"))
PriorityEntry == ("infrastructure_id" :> Str("hospital")) @@ ("level" :> Str("critical"))
RedirectEntry == ("sector_id" :> Str("S1")) @@ ("target_reduction" :> Num(Rat(3, 10)))
BlockEntry == ("sector_id" :> Str("S1")) @@ ("duration_minutes" :> Num(Rat(30, 1)))
BlockEntryWithReason == BlockEntry @@ ("reason" :> Str("fire"))

List(s) == [list |-> s]

Texts ==
    { <<>>,
      <<"All clear">>,
      <<"Drone D001 assigned to I1">>,
      <<"Drone D001 assigned to I1", "the drone is on its way">>,
      <<"Gridlock in the zone", "GRID ZONE Z1 lowered">>,
      <<"Traffic rerouted around S1">>,
      <<"Incident I1 and infrastructure checked", "Drone D001 assigned to I1">> }

\* task outputs whose only plan field is zone_adjustments
ZoneTasks ==
    { [dict |-> "zone_adjustments" :> List(es), text |-> <<"GRID ZONE Z1 lowered">>] :
        es \in SeqsUpTo(ZoneEntries, MaxEntries) }

\* task outputs with other plan fields, one plan or several
PlanDicts ==
    { ("zone_adjustments" :> List(<<CHOOSE e \in ZoneEntries : DOMAIN e = {"zone_id", "capacity"}>>))
        @@ ("priority_settings" :> List(<<PriorityEntry>>)),
      ("zone_adjustments" :> List(<<>>)) @@ ("drone_assignments" :> List(<<DroneEntry>>)),
      ("zone_adjustments" :> None) @@ ("priority_settings" :> List(<<PriorityEntry>>)),
      ("priority_settings" :> List(<<PriorityEntry, PriorityEntry>>)),
      ("drone_assignments" :> List(<<DroneEntry>>)) @@ ("incident_updates" :> List(<<UpdateEntry>>)),
      ("incident_updates" :> List(<<UpdateEntry>>)) @@ ("route_blocks" :> List(<<BlockEntry>>)),
      ("traffic_redirections" :> List(<<RedirectEntry>>))
        @@ ("route_blocks" :> List(<<BlockEntry, BlockEntryWithReason>>)) }

PlanTasks == { [dict |-> d, text |-> <<"All clear">>] : d \in PlanDicts }

\* task outputs with no plan field: raw text only (to_dict() is empty), or a dict
\* of other fields
TextTasks ==
    { [dict |-> d, text |-> t] : d \in {EmptyDict, "summary" :> Str("done")}, t \in Texts }

OtherTasks == PlanTasks \cup TextTasks

\* the tasks before and after a task of the large pool: fewer than MaxTasks in all
NeighbourTasks ==
    { [dict |-> EmptyDict, text |-> <<"Drone D001 assigned to I1">>],
      [dict |-> "summary" :> Str("done"), text |-> <<"Traffic rerouted around S1">>],
      [dict |-> ("drone_assignments" :> List(<<DroneEntry>>))
                    @@ ("incident_updates" :> List(<<UpdateEntry>>)),
       text |-> <<"All clear">>] }

Surroundings ==
    UNION { UNION { [1..j -> NeighbourTasks] \X [1..(k - j) -> NeighbourTasks] : j \in 0..k } :
            k \in 0..(MaxTasks - 1) }

\* at most one task of the large pool, at any position
CrewResults ==
    { EmptyDict }
    \cup { [tasks_output |-> ts] : ts \in SeqsUpTo(OtherTasks, MaxTasks) }
    \cup { [tasks_output |-> w[2][1] \o <<w[1]>> \o w[2][2]] : w \in ZoneTasks \X Surroundings }

\* a command dict as an agent writes it in a legacy list or in its text
LegacyCommands ==
    { [service |-> Str("grid"), action |-> Str("adjust_zone"),
       parameters |-> ("zone_id" :> Str("Z1")) @@ ("capacity" :> Num(Rat(8, 10)))],
      [service |-> Str("grid"), action |-> Str("report_status")],
      [service |-> Str("grid"), action |-> Str("report_status"), parameters |-> EmptyDict],
      [service |-> Str("traffic"), action |-> Str("redirect"), parameters |-> None],
      [action |-> Str("redirect")],
      InvalidJson }

AgentOutputs ==
    { [pydantic |-> d] : d \in PlanDicts \cup {EmptyDict} }
    \cup { [pydantic |-> "zone_adjustments" :> List(es)] : es \in SeqsUpTo(ZoneEntries, MaxEntries) }
    \cup { [zone_adjustments |-> List(es)] : es \in SeqsUpTo(ZoneEntries, MaxEntries) }
    \cup { [zone_adjustments |-> None] }
    \cup { [legacy |-> ("zone_adjustments" :> List(es)) @@ ("drone_assignments" :> List(<<DroneEntry>>))] :
                es \in SeqsUpTo(ZoneEntries, MaxEntries) }
    \cup { [legacy |-> ("drone_assignments" :> List(<<"drone_id" :> Str("D001")>>))] }
    \cup { [legacy |-> ("commands" :> List(cs)) @@ ("actions" :> None)] :
                cs \in SeqsUpTo(LegacyCommands \ {InvalidJson}, MaxEntries) }
    \cup { [matches |-> cs] : cs \in SeqsUpTo(LegacyCommands, MaxEntries) }
    \cup { [number |-> Num(Rat(1, 1))] }

\* the outcome of the function that is given no input
NotCalled == [done |-> TRUE, called |-> FALSE]

\* either a crew result for convert_agent_results_to_commands or an agent output for
\* extract_commands_from_output
ConvertInit ==
    /\ \/ tasks \in CrewResults /\ converted = NotRun /\ agentOut = Idle /\ extracted = NotCalled
       \/ agentOut \in AgentOutputs /\ extracted = NotRun /\ tasks = Idle /\ converted = NotCalled
    /\ cmd1 = Idle /\ cmd2 = Idle /\ matched = Idle
    /\ state = Idle /\ metrics = Idle /\ lastPower = Idle
    /\ raw = Idle /\ norm1 = Idle /\ norm2 = Idle
    /\ command = Idle /\ execResult = Idle /\ sent = Idle
    /\ issued = Idle /\ scenario = Idle /\ curState = Idle /\ evalResult = Idle
    /\ ctorArgs = Idle /\ constructed = Idle
    /\ emergency_incidents = Idle /\ drone_fleet = Idle /\ otherServices = Idle /\ acceptedCount = Idle /\ firstAccepted = Idle /\ evaluations = Idle
    /\ grid_zones = Idle /\ critical_infrastructure = Idle /\ traffic_sectors = Idle /\ served = Idle
    /\ initial_state = Idle /\ activated = Idle /\ system_status = Idle

Convert ==
    /\ converted = NotRun
    /\ converted' = Returned(convert_agent_results_to_commands(tasks))
    /\ UNCHANGED <<tasks, agentOut, extracted>>
    /\ UNCHANGED <<matchVars, metricVars, normVars, execVars, evalVars, ctorVars, svcVars, cityVars, actVars>>

Extract ==
    /\ extracted = NotRun
    /\ extracted' = extract_commands_from_output(agentOut)
    /\ UNCHANGED <<tasks, converted, agentOut>>
    /\ UNCHANGED <<matchVars, metricVars, normVars, execVars, evalVars, ctorVars, svcVars, cityVars, actVars>>

ConvertNext == Convert \/ Extract

SpecConvert == ConvertInit /\ [][ConvertNext]_vars

\* the plan fields a task dict holds
PlanFieldsOf(task_dict) == DOMAIN task_dict \cap {PlanFields[i] : i \in 1..Len(PlanFields)}

\* how many elements of the sequence satisfy the test
Count(s, Test(_)) == Cardinality({i \in 1..Len(s) : Test(s[i])})

SameCommand(c, d) ==
    /\ DictGet(c, "service", None) = DictGet(d, "service", None)
    /\ DictGet(c, "action", None) = DictGet(d, "action", None)
    /\ DictGet(c, "parameters", EmptyDict) = DictGet(d, "parameters", EmptyDict)

NoDuplicates(commands) ==
    \A i, j \in 1..Len(commands) : i # j => ~SameCommand(commands[i], commands[j])

\* C11: the list a converter returns never holds two commands with the same
\* service, action and parameters.
C11_NoDuplicates ==
    /\ HasReturned(converted) => NoDuplicates(converted.value)
    /\ HasReturned(extracted) => NoDuplicates(extracted.value)

\* the part of C11 that holds: extract_commands_from_output removes duplicates
ExtractedHasNoDuplicates == HasReturned(extracted) => NoDuplicates(extracted.value)

\* C12: a single task output with no plan field converts to exactly one fallback
\* Command per indicator phrase that occurs in its text, and to none for a phrase
\* that does not occur.
C12_FallbackPerPhrase ==
    ( /\ HasReturned(converted)
      /\ "tasks_output" \in DOMAIN tasks
      /\ Len(tasks.tasks_output) = 1
      /\ PlanFieldsOf(tasks.tasks_output[1].dict) = {} )
    => /\ \A k \in 1..Len(tool_patterns) :
            Count(converted.value,
                  LAMBDA c : c = Cmd(tool_patterns[k].service, tool_patterns[k].action,
                                     FallbackParameters))
              = IF TextContains(tasks.tasks_output[1].text, tool_patterns[k].pattern)
                THEN 1 ELSE 0
       /\ Len(converted.value) =
            Cardinality({k \in 1..Len(tool_patterns) :
                            TextContains(tasks.tasks_output[1].text, tool_patterns[k].pattern)})

\* a task output whose only plan field is zone_adjustments, a list whose entries
\* all hold zone_id and capacity
IsZoneRoundTripTask(t) ==
    /\ PlanFieldsOf(t.dict) = {"zone_adjustments"}
    /\ IsList(t.dict["zone_adjustments"])
    /\ \A i \in 1..Len(t.dict["zone_adjustments"].list) :
            LET e == t.dict["zone_adjustments"].list[i]
            IN  IsDict(e) /\ {"zone_id", "capacity"} \subseteq DOMAIN e

\* the commands the claim expects of such a task: entry i gives command i
ZoneRoundTripCommands(t) ==
    [i \in 1..Len(t.dict["zone_adjustments"].list) |->
        [service |-> Str("grid"), action |-> Str("adjust_zone"),
         parameters |-> [k \in {"zone_id", "capacity"} |-> t.dict["zone_adjustments"].list[i][k]]]]

\* C13: a task output whose only plan field is zone_adjustments, every entry
\* holding zone_id and capacity, contributes exactly one grid adjust_zone Command
\* per entry, in entry order, with parameters exactly {zone_id, capacity} of the
\* entry; the commands of the tasks before and after it surround them.
C13_ZoneRoundTrip ==
    (HasReturned(converted) /\ "tasks_output" \in DOMAIN tasks) =>
        \A k \in 1..Len(tasks.tasks_output) :
            IsZoneRoundTripTask(tasks.tasks_output[k]) =>
                converted.value =
                    _tasks_commands(SubSeq(tasks.tasks_output, 1, k - 1))
                    \o ZoneRoundTripCommands(tasks.tasks_output[k])
                    \o _tasks_commands(SubSeq(tasks.tasks_output, k + 1, Len(tasks.tasks_output)))

\* two entries, one with a field besides zone_id and capacity, converted to two commands
C13_Witness ==
    /\ HasReturned(converted)
    /\ "tasks_output" \in DOMAIN tasks
    /\ \E k \in 1..Len(tasks.tasks_output) :
        /\ IsZoneRoundTripTask(tasks.tasks_output[k])
        /\ Len(tasks.tasks_output[k].dict["zone_adjustments"].list) = 2
        /\ \E i \in 1..2 : "note" \in DOMAIN tasks.tasks_output[k].dict["zone_adjustments"].list[i]
    /\ Len(converted.value) >= 2

\* the two keys an entry of the plan field must hold
RequiredKeys ==
    [zone_adjustments |-> {"zone_id", "capacity"},
     priority_settings |-> {"infrastructure_id", "level"},
     drone_assignments |-> {"drone_id", "incident_id"},
     incident_updates |-> {"incident_id", "status"},
     traffic_redirections |-> {"sector_id", "target_reduction"},
     route_blocks |-> {"sector_id", "duration_minutes"}]

\* every plan field of the task is a list of entries holding their two keys
HasWellFormedPlans(t) ==
    /\ PlanFieldsOf(t.dict) # {}
    /\ \A f \in PlanFieldsOf(t.dict) :
        /\ IsList(t.dict[f])
        /\ \A i \in 1..Len(t.dict[f].list) :
            IsDict(t.dict[f].list[i]) /\ RequiredKeys[f] \subseteq DOMAIN t.dict[f].list[i]

RECURSIVE SumLen(_, _)
SumLen(d, fields) ==
    IF fields = {} THEN 0
    ELSE LET f == CHOOSE x \in fields : TRUE
         IN  Len(d[f].list) + SumLen(d, fields \ {f})

\* C14: a single task output exposing any combination of the six plan fields, all
\* entries well formed, converts to as many Commands as the fields have entries,
\* each of the service and action of its field.
C14_EveryEntryMapped ==
    ( /\ HasReturned(converted)
      /\ "tasks_output" \in DOMAIN tasks
      /\ Len(tasks.tasks_output) = 1
      /\ HasWellFormedPlans(tasks.tasks_output[1]) )
    => Len(converted.value)
            = SumLen(tasks.tasks_output[1].dict, PlanFieldsOf(tasks.tasks_output[1].dict))

-----------------------------------------------------------------------------
(* command.py: construction of a Command.  pydantic validates the fields in *)
(* order; a field that fails is left out of the values the next validator   *)
(* sees, and any failed field makes the construction raise.                 *)
-----------------------------------------------------------------------------

ServiceType == {"grid", "emergency", "traffic"}

MutValidateActionAcceptsAll(action, values) == TRUE

\* TRUE when the validator returns the action, FALSE when it raises ValueError
validate_action(action, values) ==
    IF "service" \notin DOMAIN values THEN TRUE
    ELSE action \in AllowedActions[values.service]

\* Command(**data): the Command, or the ValidationError
Command(data) ==
    LET service_ok == /\ "service" \in DOMAIN data
                      /\ IsStr(data.service)
                      /\ data.service.str \in ServiceType
        values == IF service_ok THEN [service |-> data.service.str] ELSE EmptyDict
        action_ok == /\ "action" \in DOMAIN data
                     /\ IsStr(data.action)
                     /\ validate_action(data.action.str, values)
        parameters == DictGet(data, "parameters", EmptyDict)
        parameters_ok == IsDict(parameters)
    IN  IF service_ok /\ action_ok /\ parameters_ok
        THEN Returned(Cmd(data.service.str, data.action.str, parameters))
        ELSE Raised("ValidationError")

-----------------------------------------------------------------------------
(* Specification of the constructor: one set of arguments, one call.        *)
-----------------------------------------------------------------------------

CtorServices == {Str(s) : s \in ServiceType} \cup {Str("weather"), Str("GRID"), None}

CtorActions ==
    {Str(a) : a \in UNION {AllowedActions[s] : s \in ServiceType}}
    \cup {Str("emergency_shutdown"), Str("forecast_load"), Str("Adjust_Zone"), Str(""), None}

CtorParameters ==
    { EmptyDict, ("zone_id" :> Str("Z1")) @@ ("capacity" :> Num(Rat(8, 10))), None }

CtorArguments ==
    { s @@ a @@ p :
        s \in {EmptyDict} \cup {"service" :> v : v \in CtorServices},
        a \in {EmptyDict} \cup {"action" :> v : v \in CtorActions},
        p \in {EmptyDict} \cup {"parameters" :> v : v \in CtorParameters} }

ConstructInit ==
    /\ ctorArgs \in CtorArguments
    /\ constructed = NotRun
    /\ cmd1 = Idle /\ cmd2 = Idle /\ matched = Idle
    /\ state = Idle /\ metrics = Idle /\ lastPower = Idle
    /\ raw = Idle /\ norm1 = Idle /\ norm2 = Idle
    /\ command = Idle /\ execResult = Idle /\ sent = Idle
    /\ issued = Idle /\ scenario = Idle /\ curState = Idle /\ evalResult = Idle
    /\ tasks = Idle /\ converted = Idle /\ agentOut = Idle /\ extracted = Idle
    /\ emergency_incidents = Idle /\ drone_fleet = Idle /\ otherServices = Idle /\ acceptedCount = Idle /\ firstAccepted = Idle /\ evaluations = Idle
    /\ grid_zones = Idle /\ critical_infrastructure = Idle /\ traffic_sectors = Idle /\ served = Idle
    /\ initial_state = Idle /\ activated = Idle /\ system_status = Idle

Construct ==
    /\ constructed = NotRun
    /\ constructed' = Command(ctorArgs)
    /\ UNCHANGED ctorArgs
    /\ UNCHANGED <<matchVars, metricVars, normVars, execVars, evalVars, convVars, svcVars, cityVars, actVars>>

ConstructNext == Construct

SpecConstruct == ConstructInit /\ [][ConstructNext]_vars

\* the (service, action) pair of the arguments is one of the allowed pairs
AllowedPair(data) ==
    /\ "service" \in DOMAIN data /\ IsStr(data.service) /\ data.service.str \in DOMAIN AllowedActions
    /\ "action" \in DOMAIN data /\ IsStr(data.action)
    /\ data.action.str \in AllowedActions[data.service.str]

\* C15: every Command that is constructed has an action of the allowed set of its
\* service, and the construction with any other (service, action) pair ends in a
\* validation error.
C15_ConstructionInvariant ==
    /\ HasReturned(constructed) =>
            constructed.value.action.str \in AllowedActions[constructed.value.service.str]
    /\ (constructed # NotRun /\ ~AllowedPair(ctorArgs)) => HasRaised(constructed)

\* a Command with parameters was built
C15_Witness ==
    /\ HasReturned(constructed)
    /\ ctorArgs.service = Str("traffic") /\ ctorArgs.action = Str("block_route")
    /\ DictGet(ctorArgs, "parameters", EmptyDict) # EmptyDict

\* a construction with a known service and an action of another service was refused
C15_RefusedWitness ==
    /\ HasRaised(constructed)
    /\ "service" \in DOMAIN ctorArgs /\ ctorArgs.service = Str("grid")
    /\ "action" \in DOMAIN ctorArgs /\ ctorArgs.action = Str("assign_drone")
    /\ DictGet(ctorArgs, "parameters", EmptyDict) = EmptyDict

-----------------------------------------------------------------------------
(* services/emergency_api.py: the two state-changing endpoints, and the     *)
(* fetch of the city state (state_management.get_system_status) followed by *)
(* the metric calculators.  A handler gives the status code of its response *)
(* and the two globals after it; a raised HTTPException leaves them as they *)
(* were.                                                                     *)
-----------------------------------------------------------------------------

Answer(code, incidents, fleet) == [code |-> code, incidents |-> incidents, fleet |-> fleet]

\* d[key] = value
DictSet(d, key, value) == [k \in DOMAIN d \cup {key} |-> IF k = key THEN value ELSE d[k]]

\* table[id][key] = value
EntrySet(table, id, key, value) == [table EXCEPT ![id] = DictSet(@, key, value)]

MutAssignDroneKeepsIncident(incidents, fleet, drone_id, incident_id) ==
    IF IsNone(incident_id) THEN Answer(400, incidents, fleet)
    ELSE IF drone_id \notin DOMAIN fleet THEN Answer(404, incidents, fleet)
    ELSE IF incident_id.str \notin DOMAIN incidents THEN Answer(404, incidents, fleet)
    ELSE IF fleet[drone_id]["status"] # Str("available") THEN Answer(400, incidents, fleet)
    ELSE IF incidents[incident_id.str]["status"] # Str("active") THEN Answer(400, incidents, fleet)
    ELSE Answer(200,
                EntrySet(incidents, incident_id.str, "status", Str("assigned")),
                EntrySet(EntrySet(fleet, drone_id, "status", Str("assigned")),
                         drone_id, "assigned_incident", incident_id))

\* POST /emergency/drones/{drone_id}/assign
assign_drone(incidents, fleet, drone_id, incident_id) ==
    IF IsNone(incident_id) THEN Answer(400, incidents, fleet)
    ELSE IF drone_id \notin DOMAIN fleet THEN Answer(404, incidents, fleet)
    ELSE IF incident_id.str \notin DOMAIN incidents THEN Answer(404, incidents, fleet)
    ELSE IF fleet[drone_id]["status"] # Str("available") THEN Answer(400, incidents, fleet)
    ELSE IF incidents[incident_id.str]["status"] # Str("active") THEN Answer(400, incidents, fleet)
    ELSE Answer(200,
                EntrySet(EntrySet(incidents, incident_id.str, "status", Str("assigned")),
                         incident_id.str, "assigned_drone", Str(drone_id)),
                EntrySet(EntrySet(fleet, drone_id, "status", Str("assigned")),
                         drone_id, "assigned_incident", incident_id))

\* POST /emergency/incidents/{incident_id}
update_incident(incidents, fleet, incident_id, status) ==
    IF IsNone(status) THEN Answer(400, incidents, fleet)
    ELSE IF incident_id \notin DOMAIN incidents THEN Answer(404, incidents, fleet)
    ELSE IF status.str \notin AllowedStatuses THEN Answer(400, incidents, fleet)
    ELSE LET assigned_drone_id == DictGet(incidents[incident_id], "assigned_drone", None)
             has_drone == Truthy(assigned_drone_id) /\ assigned_drone_id.str \in DOMAIN fleet
             updated == EntrySet(incidents, incident_id, "status", status)
         IN  IF status.str \in {"resolved", "canceled"} /\ has_drone
             THEN Answer(200,
                         EntrySet(updated, incident_id, "assigned_drone", None),
                         EntrySet(EntrySet(fleet, assigned_drone_id.str, "status", Str("available")),
                                  assigned_drone_id.str, "assigned_incident", None))
             ELSE IF status.str = "in_progress" /\ has_drone
             THEN Answer(200, updated,
                         EntrySet(fleet, assigned_drone_id.str, "status", Str("on_site")))
             ELSE Answer(200, updated, fleet)

\* the emergency service's answer to a request of the executor's form
_emergency_handle(incidents, fleet, request) ==
    IF request.endpoint.template = "/emergency/drones/{drone_id}/assign"
    THEN assign_drone(incidents, fleet, request.endpoint.arg.str,
                      DictGet(request.data, "incident_id", None))
    ELSE update_incident(incidents, fleet, request.endpoint.arg.str,
                         DictGet(request.data, "status", None))

\* GET /state/get of the three services, gathered under the service names
get_system_status(incidents, fleet, others) ==
    [grid |-> others.grid,
     emergency |-> [incidents |-> incidents, drones |-> fleet],
     traffic |-> others.traffic]

\* the calculators on the normalized fetched state
_evaluate_fetched(status) ==
    [name \in {"incident_response", "grid_stability"} |->
        Calculate(name, _normalize_state(status))]

-----------------------------------------------------------------------------
(* Specification of the emergency service: requests arrive in any order,    *)
(* and the city state is fetched and evaluated at any time.                 *)
-----------------------------------------------------------------------------

MaxAccepted == 3
MaxEvaluations == 2

IncidentNames == {"I1", "I2"}
DroneNames == {"D1", "D2"}

\* an incident and a drone as the seed generator makes them (bare), or as /state/set
\* files the entries of a scenario's list
FreshIncident(shape, status) ==
    IF shape = "bare" THEN ("status" :> Str(status)) @@ ("urgency" :> Num(Rat(99, 100)))
    ELSE ("status" :> Str(status)) @@ ("urgency" :> Num(Rat(99, 100))) @@ ("assigned_drone" :> None)

FreshDrone(shape) ==
    IF shape = "bare" THEN "status" :> Str("available")
    ELSE ("status" :> Str("available")) @@ ("assigned_incident" :> None)

\* the two globals at the start: every drone available, no incident with a drone
InitialEmergencyStates ==
    { [incidents |-> [i \in c[2] |-> FreshIncident(c[1], "active")],
       fleet |-> [d \in c[3] |-> FreshDrone(c[1])]] :
        c \in { <<"bare", {"I1"}, {"D1"}>>, <<"filed", {"I1"}, {"D1"}>>,
                <<"bare", {"I1"}, DroneNames>>, <<"filed", IncidentNames, DroneNames>> } }

GridState(stability) ==
    ("zones" :> ("Z1" :> ( ("current_load" :> Num(Rat(98, 100))) @@
                           ("capacity" :> Num(One)) @@
                           ("stability" :> Num(stability)) @@
                           ("is_critical" :> Bool(TRUE)) )))
    @@ ("infrastructure" :> EmptyDict)

\* the answers of the grid and the traffic service to /state/get: a blocked sector,
\* or no answer from the traffic service
OtherServiceStates ==
    { [grid |-> GridState(Rat(4, 10)),
       traffic |-> "sectors" :> ("S1" :> (("congestion_level" :> Num(Rat(1, 2))) @@
                                          ("is_blocked" :> Bool(TRUE))))],
      [grid |-> GridState(Rat(9, 10)), traffic |-> "error" :> Str("unavailable")] }

\* the commands an agent issues to the emergency service
EmergencyCommands ==
    { Cmd("emergency", "assign_drone", ("drone_id" :> Str(d)) @@ ("incident_id" :> Str(i))) :
        d \in DroneNames \cup {"D9"}, i \in IncidentNames \cup {"I9"} }
    \cup { Cmd("emergency", "update_incident", ("incident_id" :> Str(i)) @@ ("status" :> Str(s))) :
        i \in IncidentNames \cup {"I9"}, s \in AllowedStatuses }

\* the requests the executor sends for them, and requests no executor would send
EmergencyRequests ==
    { _execute_prepare(c).request : c \in EmergencyCommands }
    \cup { [port |-> ServicePorts["emergency"],
            endpoint |-> [template |-> "/emergency/drones/{drone_id}/assign", arg |-> Str("D1")],
            method |-> "POST", data |-> EmptyDict],
           [port |-> ServicePorts["emergency"],
            endpoint |-> [template |-> "/emergency/incidents/{incident_id}", arg |-> Str("I1")],
            method |-> "POST", data |-> EmptyDict],
           [port |-> ServicePorts["emergency"],
            endpoint |-> [template |-> "/emergency/incidents/{incident_id}", arg |-> Str("I1")],
            method |-> "POST", data |-> "status" :> Str("closed")] }

AssignEndpoint == EndpointMappings["emergency"]["assign_drone"][1]

IsAssignRequest(r) == r.endpoint.template = AssignEndpoint

NoRequest == ""

EmergencyInit ==
    /\ \E e \in InitialEmergencyStates :
            emergency_incidents = e.incidents /\ drone_fleet = e.fleet
    /\ otherServices \in OtherServiceStates
    /\ acceptedCount = 0
    /\ firstAccepted = NoRequest
    /\ evaluations = <<>>
    /\ cmd1 = Idle /\ cmd2 = Idle /\ matched = Idle
    /\ state = Idle /\ metrics = Idle /\ lastPower = Idle
    /\ raw = Idle /\ norm1 = Idle /\ norm2 = Idle
    /\ command = Idle /\ execResult = Idle /\ sent = Idle
    /\ issued = Idle /\ scenario = Idle /\ curState = Idle /\ evalResult = Idle
    /\ tasks = Idle /\ converted = Idle /\ agentOut = Idle /\ extracted = Idle
    /\ ctorArgs = Idle /\ constructed = Idle
    /\ grid_zones = Idle /\ critical_infrastructure = Idle /\ traffic_sectors = Idle /\ served = Idle
    /\ initial_state = Idle /\ activated = Idle /\ system_status = Idle

\* the service handles one request and answers it
Serve(r) ==
    LET answer == _emergency_handle(emergency_incidents, drone_fleet, r)
    IN  /\ answer.code = 200 => acceptedCount < MaxAccepted
        /\ emergency_incidents' = answer.incidents
        /\ drone_fleet' = answer.fleet
        /\ acceptedCount' = IF answer.code = 200 THEN acceptedCount + 1 ELSE acceptedCount
        /\ firstAccepted' = IF answer.code = 200 /\ acceptedCount = 0
                            THEN r.endpoint.template ELSE firstAccepted
        /\ UNCHANGED <<otherServices, evaluations>>
        /\ UNCHANGED <<matchVars, metricVars, normVars, execVars, evalVars, convVars, ctorVars, cityVars, actVars>>

AssignDrone == \E r \in EmergencyRequests : IsAssignRequest(r) /\ Serve(r)

UpdateIncident == \E r \in EmergencyRequests : ~IsAssignRequest(r) /\ Serve(r)

\* get_system_status() and the calculators on what it returns
FetchAndEvaluate ==
    /\ Len(evaluations) < MaxEvaluations
    /\ evaluations' =
            Append(evaluations,
                   [after |-> acceptedCount,
                    first |-> firstAccepted,
                    values |-> _evaluate_fetched(
                                  get_system_status(emergency_incidents, drone_fleet, otherServices))])
    /\ UNCHANGED <<emergency_incidents, drone_fleet, otherServices,
                   acceptedCount, firstAccepted>>
    /\ UNCHANGED <<matchVars, metricVars, normVars, execVars, evalVars, convVars, ctorVars, cityVars, actVars>>

EmergencyNext == AssignDrone \/ UpdateIncident \/ FetchAndEvaluate

SpecEmergency == EmergencyInit /\ [][EmergencyNext]_vars

\* one incident, one drone
SingleIncidentAndDrone ==
    Cardinality(DOMAIN emergency_incidents) = 1 /\ Cardinality(DOMAIN drone_fleet) = 1

\* the stability of the only zone of the grid
SingleZoneStability == otherServices.grid["zones"]["Z1"]["stability"].num

\* C16: with one active incident without a drone and one available drone, an
\* evaluation before any accepted request gives incident_response 0.0 and
\* grid_stability the stability of the single critical zone; an evaluation made
\* when the one accepted request is the assignment of the drone to the incident
\* gives incident_response 1.0.
C16_AssignThenReevaluate ==
    SingleIncidentAndDrone =>
        \A k \in 1..Len(evaluations) :
            /\ evaluations[k].after = 0 =>
                /\ evaluations[k].values["incident_response"] = Zero
                /\ evaluations[k].values["grid_stability"] = SingleZoneStability
            /\ (evaluations[k].after = 1 /\ evaluations[k].first = AssignEndpoint) =>
                evaluations[k].values["incident_response"] = One

\* evaluated before, the drone assigned with 200, evaluated again, with a blocked
\* sector in the traffic service
C16_Witness ==
    /\ SingleIncidentAndDrone
    /\ Len(evaluations) = 2
    /\ evaluations[1].after = 0 /\ evaluations[1].values["incident_response"] = Zero
    /\ evaluations[2].after = 1 /\ evaluations[2].first = AssignEndpoint
    /\ evaluations[2].values["incident_response"] = One
    /\ "sectors" \in DOMAIN otherServices.traffic
    /\ "S1" \in DOMAIN otherServices.traffic["sectors"]

\* C17: whenever a drone's assigned_incident names an incident, that incident's
\* assigned_drone names the drone.
C17_AssignmentConsistency ==
    \A d \in DOMAIN drone_fleet :
        LET i == DictGet(drone_fleet[d], "assigned_incident", None)
        IN  (~IsNone(i) /\ i.str \in DOMAIN emergency_incidents) =>
                DictGet(emergency_incidents[i.str], "assigned_drone", None) = Str(d)

-----------------------------------------------------------------------------
(* Structure of the match predicate                                         *)

\* a command without parameters: the field is missing, None or an empty dict
HasNoParameters(c) ==
    \/ "parameters" \notin DOMAIN c
    \/ IsNone(c.parameters)
    \/ DOMAIN c.parameters = {}

\* two parameter values match: numbers within a fifth of the optimal value (of 0.1
\* when the optimal value is smaller), anything else equal as lowercased strings
ValueMatches(issuedValue, optimalValue) ==
    IF IsNumber(issuedValue) /\ IsNumber(optimalValue)
    THEN RLe(RMul(Whole(5), RAbs(RSub(NumOf(issuedValue), NumOf(optimalValue)))),
             RMax(RAbs(NumOf(optimalValue)), Rat(1, 10)))
    ELSE StrLower(issuedValue) = StrLower(optimalValue)

SharedKeysMatch(issuedCmd, optimalCmd) ==
    \A key \in DOMAIN optimalCmd.parameters \cap DOMAIN issuedCmd.parameters :
        ValueMatches(issuedCmd.parameters[key], optimalCmd.parameters[key])

\* C18: an issued command matches an optimal command exactly when service and action
\* are equal and either one of the two has no parameters or every key of the optimal
\* command that the issued command also has carries a matching value; keys of only
\* one of the two commands never decide the result (quotients of exactly 0.2, which
\* the float comparison decides, are left out)
C18_MatchStructure ==
    (HasReturned(matched) /\ ~_on_tolerance_boundary(cmd1, cmd2)) =>
        (matched.value <=>
            /\ DictGet(cmd1, "service", None) = DictGet(cmd2, "service", None)
            /\ DictGet(cmd1, "action", None) = DictGet(cmd2, "action", None)
            /\ \/ HasNoParameters(cmd1)
               \/ HasNoParameters(cmd2)
               \/ SharedKeysMatch(cmd1, cmd2))

\* a match across an optimal-only key, an issued-only key and a difference of case
C18_Witness ==
    /\ matched = Returned(TRUE)
    /\ ~HasNoParameters(cmd1) /\ ~HasNoParameters(cmd2)
    /\ DOMAIN cmd2.parameters \ DOMAIN cmd1.parameters # {}
    /\ DOMAIN cmd1.parameters \ DOMAIN cmd2.parameters # {}
    /\ \E key \in DOMAIN cmd2.parameters \cap DOMAIN cmd1.parameters :
           cmd1.parameters[key] # cmd2.parameters[key]

\* a refusal decided by a shared key alone, between commands with parameters
C18_RefusedWitness ==
    /\ matched = Returned(FALSE)
    /\ DictGet(cmd1, "service", None) = DictGet(cmd2, "service", None)
    /\ DictGet(cmd1, "action", None) = DictGet(cmd2, "action", None)
    /\ ~HasNoParameters(cmd1) /\ ~HasNoParameters(cmd2)
    /\ ~_on_tolerance_boundary(cmd1, cmd2)

\* a match granted because the issued command's parameters are None
C18_NoParametersWitness ==
    /\ matched = Returned(TRUE)
    /\ "parameters" \in DOMAIN cmd1 /\ IsNone(cmd1.parameters)
    /\ ~HasNoParameters(cmd2)

-----------------------------------------------------------------------------
(* Commands that lack service or action                                     *)

IsMalformed(cmd) == "service" \notin DOMAIN cmd \/ "action" \notin DOMAIN cmd

WellFormedOnly(commands) == SelectSeq(commands, LAMBDA cmd : ~IsMalformed(cmd))

\* C19: a command that lacks service or action is skipped: it does not make the
\* evaluation raise (the evaluation raises only if it does without the command),
\* command_impacts has no entry for it, and no optimal command is matched by it.
C19_MalformedSkipped ==
    (evalResult # NotRun /\ \E i \in 1 .. Len(issued) : IsMalformed(issued[i])) =>
        /\ HasRaised(evalResult) =>
                HasRaised(evaluate_scenario_commands(WellFormedOnly(issued), scenario, curState))
        /\ HasReturned(evalResult) =>
            /\ \A i \in 1 .. Len(evalResult.value.command_impacts) :
                    ~IsMalformed(evalResult.value.command_impacts[i].command)
            /\ \A i \in 1 .. Len(evalResult.value.optimal_comparison.matches) :
                    LET m == evalResult.value.optimal_comparison.matches[i]
                    IN  m.match => ~IsMalformed(m.executed)

\* the part that holds: a malformed command never makes the evaluation raise
MalformedNeverRaises ==
    (evalResult # NotRun /\ \E i \in 1 .. Len(issued) : IsMalformed(issued[i])) =>
        (HasRaised(evalResult) =>
            HasRaised(evaluate_scenario_commands(WellFormedOnly(issued), scenario, curState)))

\* a malformed issued command counted as the match of an optimal command
MalformedMatched ==
    /\ HasReturned(evalResult)
    /\ \E i \in 1 .. Len(evalResult.value.optimal_comparison.matches) :
            LET m == evalResult.value.optimal_comparison.matches[i]
            IN  m.match /\ IsMalformed(m.executed)

-----------------------------------------------------------------------------
(* Metrics without a registered calculator                                  *)

\* the declared metrics of the scenario whose calculation (the metric's name) has no
\* registered calculator
UnregisteredMetrics ==
    IF "metrics" \in DOMAIN scenario
    THEN {name \in DOMAIN scenario.metrics : name \notin CalculatorNames}
    ELSE {}

NormalizedCurrentState ==
    _normalize_state(IF IsNone(curState) THEN EmptyDict ELSE curState)

\* current_metrics holds 0.0 for the metrics without a calculator and the
\* calculator's value for every other declared metric
CurrentMetricsAsDeclared ==
    /\ DOMAIN evalResult.value.current_metrics = DOMAIN scenario.metrics
    /\ \A name \in DOMAIN scenario.metrics :
            evalResult.value.current_metrics[name] =
                IF name \in CalculatorNames THEN Calculate(name, NormalizedCurrentState)
                ELSE Zero

\* C20: when a declared metric names a calculation without a registered calculator,
\* the evaluation still returns a complete result, in which that metric's current
\* value is 0.0 and every other declared metric has the value of its calculator.
C20_MissingCalculator ==
    (evalResult # NotRun /\ UnregisteredMetrics # {}) =>
        /\ HasReturned(evalResult)
        /\ DOMAIN evalResult.value =
            {"current_metrics", "command_impacts", "metric_progress", "optimal_comparison",
             "overall_score"}
        /\ CurrentMetricsAsDeclared

\* the part that holds: every result that comes back is complete and has 0.0 for the
\* metric without a calculator next to the calculated values of the others
MissingCalculatorDefaults ==
    (HasReturned(evalResult) /\ UnregisteredMetrics # {}) =>
        /\ DOMAIN evalResult.value =
            {"current_metrics", "command_impacts", "metric_progress", "optimal_comparison",
             "overall_score"}
        /\ CurrentMetricsAsDeclared

\* a result with one metric at 0.0 for want of a calculator and another calculated
MissingCalculatorReturned ==
    /\ HasReturned(evalResult)
    /\ UnregisteredMetrics # {}
    /\ \E name \in DOMAIN scenario.metrics :
            name \in CalculatorNames /\ evalResult.value.current_metrics[name] # Zero

\* a missing calculator raises only together with a target that is not a number
MissingCalculatorRaisesOnlyOnTarget ==
    (HasRaised(evalResult) /\ UnregisteredMetrics # {}) =>
        \E name \in DOMAIN scenario.metrics : ~IsNumber(scenario.metrics[name])

-----------------------------------------------------------------------------
(* Validation before dispatch                                               *)

\* a parameter value read as a number: a number, a bool, or a numeral string
IsNumeric(v) == IsNumber(v) \/ (IsStr(v) /\ v.str \in DOMAIN FloatTable)
AsNumber(v) == IF IsNumber(v) THEN NumOf(v) ELSE FloatTable[v.str]

OutsideUnit(v) == IsNumeric(v) /\ ~(RLe(Zero, AsNumber(v)) /\ RLe(AsNumber(v), One))
OutsideDuration(v) ==
    IsNumeric(v) /\ ~(RLe(Whole(5), AsNumber(v)) /\ RLe(AsNumber(v), Whole(1440)))

\* the violations of the validator table: a required field is missing, a number is
\* out of its range, a level or status is not one of the allowed words
ViolatesValidator(c) ==
    LET p == c.parameters
        is(service, action) == c.service = Str(service) /\ c.action = Str(action)
    IN  \/ /\ is("grid", "adjust_zone")
           /\ \/ {"zone_id", "capacity"} \ DOMAIN p # {}
              \/ OutsideUnit(p["capacity"])
        \/ /\ is("grid", "set_priority")
           /\ "level" \in DOMAIN p => p["level"] \notin {Str("critical"), Str("high"), Str("medium"), Str("low")}
        \/ /\ is("emergency", "update_incident")
           /\ "status" \in DOMAIN p =>
                p["status"] \notin {Str("active"), Str("assigned"), Str("in_progress"),
                                    Str("resolved"), Str("canceled")}
        \/ /\ is("traffic", "redirect")
           /\ "target_reduction" \in DOMAIN p /\ OutsideUnit(p["target_reduction"])
        \/ /\ is("traffic", "block_route")
           /\ \/ {"sector", "reason"} \ DOMAIN p # {}
              \/ "duration_minutes" \in DOMAIN p /\ OutsideDuration(p["duration_minutes"])

RefusedUnsent ==
    /\ HasReturned(execResult)
    /\ execResult.value.success = FALSE
    /\ execResult.value.status = FAILURE
    /\ sent = <<>>

\* C21: a command whose parameters violate its validator ends as
\* CommandResult(success=False, status=FAILURE) and no request is sent.
C21_ValidationPrecedesDispatch ==
    (execResult # NotRun /\ ViolatesValidator(command)) => RefusedUnsent

\* a duration that is out of range only by its fraction
FractionalDuration ==
    /\ command.action = Str("block_route")
    /\ "duration_minutes" \in DOMAIN command.parameters
    /\ IsNumber(command.parameters["duration_minutes"])
    /\ NumOf(command.parameters["duration_minutes"])[2] # 1

\* the part that holds: every violation but a fractional duration is refused unsent
ViolationsRefusedUnsent ==
    (execResult # NotRun /\ ViolatesValidator(command) /\ ~FractionalDuration) => RefusedUnsent

\* a block_route whose duration is above 1440 and whose request went out
OutOfRangeDurationSent ==
    /\ execResult # NotRun
    /\ command.action = Str("block_route")
    /\ "duration_minutes" \in DOMAIN command.parameters
    /\ OutsideDuration(command.parameters["duration_minutes"])
    /\ sent # <<>>

-----------------------------------------------------------------------------
(* Outcome mapping of execute                                               *)

\* success and status the answer of the service is mapped to
ExpectedOutcome(answer) ==
    IF answer = "2xx" THEN <<TRUE, SUCCESS>>
    ELSE IF answer = "timeout" THEN <<FALSE, TIMEOUT>>
    ELSE <<FALSE, FAILURE>>

\* C22: a 2xx answer gives success with status SUCCESS, a non-2xx answer and any
\* transport exception but a timeout give a failure with status FAILURE, a timeout
\* gives a failure with status TIMEOUT; in every result execute returns, success
\* is true exactly when status is SUCCESS.
C22_OutcomeMapping ==
    HasReturned(execResult) =>
        /\ sent # <<>> =>
            <<execResult.value.success, execResult.value.status>> = ExpectedOutcome(sent[1].answer)
        /\ execResult.value.success <=> execResult.value.status = SUCCESS

\* a request that timed out and ended as a TIMEOUT result
C22_Witness ==
    /\ HasReturned(execResult)
    /\ sent # <<>> /\ sent[1].answer = "timeout"
    /\ execResult.value.status = TIMEOUT

\* a request answered 2xx and ended as a SUCCESS result
C22_SuccessWitness ==
    /\ HasReturned(execResult)
    /\ sent # <<>> /\ sent[1].answer = "2xx"
    /\ execResult.value.success

-----------------------------------------------------------------------------
(* emergency_routing and response_time as formulas of the state             *)

\* the quantities of the formulas, from the state the calculators ran on
AvgCongestion ==
    RDiv(RSum([t \in DOMAIN state.traffic |-> NumOf(state.traffic[t].congestion_level)],
              DOMAIN state.traffic),
         Whole(Cardinality(DOMAIN state.traffic)))
BlockedRatio ==
    Rat(Cardinality({t \in DOMAIN state.traffic : state.traffic[t].is_blocked = Bool(TRUE)}),
        Cardinality(DOMAIN state.traffic))
ActiveShare ==
    Rat(Cardinality({i \in DOMAIN state.incidents :
                        state.incidents[i].status \in {Str("assigned"), Str("in_progress")}}),
        Cardinality(DOMAIN state.incidents))
Clamp(r) == RMax(Zero, RMin(One, r))

RoutingBase == RMax(Centi(20), RSub(One, RMul(Centi(80), AvgCongestion)))

\* C23 as stated: with traffic data and an incident, emergency_routing is
\* max(0.2, 1 - 0.8*avg_congestion) - 0.3*blocked_ratio + 0.2*active/total clamped to
\* [0,1]; it is 0.9 without incidents and 0.5 without traffic data.
C23_Original ==
    HasReturned(metrics) =>
        metrics.value["emergency_routing"] =
            IF DOMAIN state.traffic = {} THEN Centi(50)
            ELSE IF DOMAIN state.incidents = {} THEN Centi(90)
            ELSE Clamp(RAdd(RSub(RoutingBase, RMul(Centi(30), BlockedRatio)),
                            RMul(Centi(20), ActiveShare)))

\* C23: the score after the blocking penalty is held at 0.1 before the bonus is
\* added: emergency_routing is min(1, max(0.1, max(0.2, 1 - 0.8*avg_congestion)
\* - 0.3*blocked_ratio) + 0.2*active/total); without traffic data it is 0.5, and
\* with traffic data but no incident it is 0.9.
C23_PenaltyFloor ==
    HasReturned(metrics) =>
        metrics.value["emergency_routing"] =
            IF DOMAIN state.traffic = {} THEN Centi(50)
            ELSE IF DOMAIN state.incidents = {} THEN Centi(90)
            ELSE RMin(One, RAdd(RMax(Centi(10), RSub(RoutingBase, RMul(Centi(30), BlockedRatio))),
                                RMul(Centi(20), ActiveShare)))

\* every sector blocked at full congestion, an incident nobody works on: 0.1
C23_Witness ==
    /\ HasReturned(metrics)
    /\ DOMAIN state.traffic # {} /\ DOMAIN state.incidents # {}
    /\ RLt(RSub(RoutingBase, RMul(Centi(30), BlockedRatio)), Centi(10))
    /\ metrics.value["emergency_routing"] = Centi(10)


\* incidents of the state with a drone assigned
DroneAssignedIncidents ==
    {i \in DOMAIN state.incidents : state.incidents[i].assigned_drone # None}

\* C24: response_time is 0 whenever no incident has an assigned drone, a state
\* without incidents included; otherwise it is 0.8 - 0.3 * average congestion,
\* never below 0.2.
C24_ResponseTime ==
    HasReturned(metrics) =>
        metrics.value["response_time"] =
            IF DroneAssignedIncidents = {} THEN Zero
            ELSE IF DOMAIN state.traffic = {} THEN Centi(80)
            ELSE RMax(Centi(20), RSub(Centi(80), RMul(Centi(30), AvgCongestion)))

\* the part that holds: the value when there is an incident
ResponseTimeWithIncidents ==
    (HasReturned(metrics) /\ DOMAIN state.incidents # {}) =>
        metrics.value["response_time"] =
            IF DroneAssignedIncidents = {} THEN Zero
            ELSE IF DOMAIN state.traffic = {} THEN Centi(80)
            ELSE RMax(Centi(20), RSub(Centi(80), RMul(Centi(30), AvgCongestion)))

\* no incident at all, and a response_time of 1.0
ResponseTimeWithoutIncidents ==
    /\ HasReturned(metrics)
    /\ DOMAIN state.incidents = {}
    /\ metrics.value["response_time"] = One

-----------------------------------------------------------------------------
(* services/grid_api.py and services/traffic_api.py: the handlers of the    *)
(* requests the executor sends.  A handler returns the status code of the   *)
(* answer and the globals as it leaves them; an exception that leaves a      *)
(* handler is answered with 500 and keeps what was written before it.       *)

GridAnswer(code, zones, infra) == [code |-> code, zones |-> zones, infra |-> infra]
TrafficAnswer(code, sectors) == [code |-> code, sectors |-> sectors]

DEFAULT_STABILITY == Rat(1, 2)

\* zone.get("stability", 0.5)
_zone_stability(zone) == NumOf(DictGet(zone, "stability", Num(DEFAULT_STABILITY)))

\* the stability and status adjust_zone_capacity writes for a load ratio
_adjusted_stability(zone, load_ratio) ==
    IF RLt(One, load_ratio)
    THEN [stability |-> RMax(Centi(10), RSub(_zone_stability(zone), Centi(30))), status |-> "overloaded"]
    ELSE IF RLt(Centi(90), load_ratio)
    THEN [stability |-> RMax(Centi(30), RSub(_zone_stability(zone), Centi(10))), status |-> "degraded"]
    ELSE [stability |-> RMin(One, RAdd(_zone_stability(zone), Centi(20))), status |-> "online"]

\* PUT /grid/zones/{zone_id}/capacity with the capacity in the body
adjust_zone_capacity(zones, infra, zone_id, capacity) ==
    IF zone_id \notin DOMAIN zones THEN GridAnswer(404, zones, infra)
    ELSE IF IsNone(capacity) THEN GridAnswer(400, zones, infra)
    ELSE IF ~IsNumber(capacity) THEN GridAnswer(500, zones, infra)
    ELSE IF ~(RLe(Zero, NumOf(capacity)) /\ RLe(NumOf(capacity), One)) THEN GridAnswer(400, zones, infra)
    ELSE LET zone == zones[zone_id]
             old_capacity == DictGet(zone, "capacity_kw", Num(Zero))
             max_capacity == DictGet(zone, "max_capacity_kw", old_capacity)
             new_capacity == RMul(NumOf(max_capacity), NumOf(capacity))
             resized == DictSet(zone, "capacity_kw", Num(new_capacity))
             load_ratio == IF RLt(Zero, new_capacity)
                           THEN RDiv(NumOf(zone["current_load_kw"]), new_capacity) ELSE One
             adjusted == _adjusted_stability(resized, load_ratio)
         IN  GridAnswer(200,
                        [zones EXCEPT ![zone_id] =
                            DictSet(DictSet(resized, "stability", Num(adjusted.stability)),
                                    "status", Str(adjusted.status))],
                        infra)

\* the entry set_priority creates for an infrastructure it does not know
NewInfrastructure(infrastructure_id) ==
    [infrastructure_id |-> Str(infrastructure_id), level |-> Str("medium"),
     estimated_load_kw |-> Num(Whole(1000))]

\* the stability of a zone after a change of priority from old_level to level
_priority_impact(zone, old_level, level) ==
    IF ~Truthy(DictGet(zone, "is_critical", Bool(FALSE))) THEN zone
    ELSE IF level = Str("critical")
    THEN DictSet(zone, "stability", Num(RMin(One, RAdd(_zone_stability(zone), Centi(10)))))
    ELSE IF old_level = Str("critical")
    THEN DictSet(zone, "stability", Num(RMax(Centi(10), RSub(_zone_stability(zone), Centi(10)))))
    ELSE zone

\* POST /grid/infrastructure/{infrastructure_id}/priority with the level in the body
set_priority(zones, infra, infrastructure_id, level) ==
    IF IsNone(level) THEN GridAnswer(400, zones, infra)
    ELSE IF level \notin {Str(l) : l \in AllowedLevels} THEN GridAnswer(400, zones, infra)
    ELSE LET known == IF infrastructure_id \in DOMAIN infra THEN infra
                      ELSE DictSet(infra, infrastructure_id, NewInfrastructure(infrastructure_id))
             old_level == known[infrastructure_id]["level"]
         IN  GridAnswer(200,
                        [z \in DOMAIN zones |-> _priority_impact(zones[z], old_level, level)],
                        EntrySet(known, infrastructure_id, "level", level))

\* the grid service's answer to a request of the executor's form
_grid_handle(zones, infra, request) ==
    IF request.endpoint.template = "/grid/zones/{zone_id}/capacity"
    THEN adjust_zone_capacity(zones, infra, request.endpoint.arg.str,
                              DictGet(request.data, "capacity", None))
    ELSE set_priority(zones, infra, request.endpoint.arg.str,
                      DictGet(request.data, "level", None))

\* target_reduction is a query parameter with the default 0.5; the executor sends
\* its parameters in the body, so the handler's `target_reduction is None` never holds
QUERY_DEFAULT_REDUCTION == Rat(1, 2)

\* the status redirect_traffic writes for a congestion level
_congestion_status(congestion) ==
    IF RLt(congestion, Centi(30)) THEN "clear"
    ELSE IF RLt(congestion, Centi(60)) THEN "moderate"
    ELSE IF RLt(congestion, Centi(90)) THEN "heavy"
    ELSE "gridlock"

\* 1.0 + (new_congestion * 2.0)
_travel_time_multiplier(congestion) == RAdd(One, RMul(congestion, Whole(2)))

\* POST /traffic/redirect with the parameters in the body
redirect_traffic(sectors, body) ==
    LET sector_id == IF DOMAIN body # {} THEN DictGet(body, "sector_id", None) ELSE None
        target_reduction == QUERY_DEFAULT_REDUCTION
    IN  IF IsNone(sector_id) THEN TrafficAnswer(400, sectors)
        ELSE IF sector_id.str \notin DOMAIN sectors THEN TrafficAnswer(404, sectors)
        ELSE IF Truthy(DictGet(sectors[sector_id.str], "is_blocked", Bool(FALSE)))
        THEN TrafficAnswer(400, sectors)
        ELSE LET sector == sectors[sector_id.str]
                 current_congestion == NumOf(DictGet(sector, "congestion_level", Num(Zero)))
                 new_congestion == RMax(Zero, RMul(current_congestion, RSub(One, target_reduction)))
             IN  TrafficAnswer(200,
                    [sectors EXCEPT ![sector_id.str] =
                        DictSet(DictSet(DictSet(sector, "congestion_level", Num(new_congestion)),
                                        "travel_time_multiplier",
                                        Num(_travel_time_multiplier(new_congestion))),
                                "status", Str(_congestion_status(new_congestion)))])

BLOCKED_MULTIPLIER == Whole(5)
SPILLOVER_SHARE == Rat(3, 10)
NEIGHBOUR_SHARE == Rat(1, 10)

\* the blocked sector as block_route writes it, up to the duration
_blocked_sector(sector_data, reason) ==
    DictSet(DictSet(DictSet(DictSet(sector_data, "status", Str("blocked")),
                            "is_blocked", Bool(TRUE)),
                    "block_reason", reason),
            "travel_time_multiplier", Num(BLOCKED_MULTIPLIER))

\* a sector that is not blocked takes a share of the blocked sector's congestion
_spillover(other_sector, congestion_spillover) ==
    LET new_congestion ==
            RMin(One, RAdd(NumOf(DictGet(other_sector, "congestion_level", Num(Zero))),
                           RMul(congestion_spillover, NEIGHBOUR_SHARE)))
    IN  DictSet(DictSet(other_sector, "congestion_level", Num(new_congestion)),
                "travel_time_multiplier", Num(_travel_time_multiplier(new_congestion)))

\* POST /traffic/block_route with the parameters in the body; duration_minutes * 60
\* added to a timestamp raises TypeError for a string, after the sector was written
block_route(sectors, body) ==
    LET sector == DictGet(body, "sector", None)
        reason == DictGet(body, "reason", None)
        duration_minutes == DictGet(body, "duration_minutes", None)
    IN  IF IsNone(sector) \/ IsNone(reason) THEN TrafficAnswer(400, sectors)
        ELSE IF sector.str \notin DOMAIN sectors THEN TrafficAnswer(404, sectors)
        ELSE LET blocked == _blocked_sector(sectors[sector.str], reason)
                 timed == DictSet(blocked, "block_duration_minutes", duration_minutes)
                 congestion_spillover ==
                    RMul(NumOf(DictGet(blocked, "congestion_level", Num(Zero))), SPILLOVER_SHARE)
                 spread(mine) ==
                    [s \in DOMAIN sectors |->
                        IF s = sector.str THEN mine
                        ELSE IF Truthy(DictGet(sectors[s], "is_blocked", Bool(FALSE))) THEN sectors[s]
                        ELSE _spillover(sectors[s], congestion_spillover)]
             IN  IF ~Truthy(duration_minutes) THEN TrafficAnswer(200, spread(blocked))
                 ELSE IF ~IsNumber(duration_minutes)
                 THEN TrafficAnswer(500, [sectors EXCEPT ![sector.str] = timed])
                 ELSE TrafficAnswer(200, spread(DictSet(timed, "block_end_time", Str("timestamp"))))

\* the traffic service's answer to a request of the executor's form
_traffic_handle(sectors, request) ==
    IF request.endpoint.template = "/traffic/redirect"
    THEN redirect_traffic(sectors, request.data)
    ELSE block_route(sectors, request.data)


\* grid_api.normalize_zone_data: the zones /state/set installs
normalize_zone_data(zone_data) ==
    [zone_id \in DOMAIN zone_data |->
        LET zone == zone_data[zone_id]
            capacity_kw == DictGet(zone, "capacity", DictGet(zone, "capacity_kw", Num(Whole(1000))))
        IN  [zone_id |-> Str(zone_id),
             status |-> DictGet(zone, "status", Str("online")),
             capacity_kw |-> capacity_kw,
             current_load_kw |-> DictGet(zone, "current_load",
                                         DictGet(zone, "current_load_kw", Num(Whole(500)))),
             is_critical |-> DictGet(zone, "is_critical", Bool(FALSE)),
             stability |-> DictGet(zone, "stability", Num(DEFAULT_STABILITY)),
             max_capacity_kw |-> capacity_kw]]

\* DaySeedGenerator.generate_grid_data: a zone of the seeded or reset state
SeededZone(zone_id, capacity, current_load, is_critical) ==
    [zone_id |-> Str(zone_id), status |-> Str("online"), capacity_kw |-> Num(Whole(capacity)),
     current_load_kw |-> Num(Whole(current_load)), is_critical |-> Bool(is_critical)]

\* DaySeedGenerator.generate_traffic_data: a sector of the seeded or reset state
SeededSector(sector_id, congestion_level, is_blocked) ==
    [sector_id |-> Str(sector_id),
     status |-> Str(IF is_blocked THEN "blocked" ELSE _congestion_status(congestion_level)),
     congestion_level |-> Num(congestion_level),
     is_blocked |-> Bool(is_blocked),
     travel_time_multiplier |-> Num(IF is_blocked THEN BLOCKED_MULTIPLIER
                                    ELSE _travel_time_multiplier(congestion_level))]

\* grid_api: the critical_infrastructure the service starts with
DefaultInfrastructure ==
    [id \in {"hospital", "police", "water_treatment", "data_center", "emergency_shelter"} |->
        [infrastructure_id |-> Str(id),
         level |-> Str(CASE id = "hospital" -> "high"
                         [] id \in {"police", "water_treatment"} -> "medium"
                         [] OTHER -> "low"),
         estimated_load_kw |-> Num(Whole(CASE id = "hospital" -> 5000
                                           [] id = "police" -> 3000
                                           [] id = "water_treatment" -> 4000
                                           [] id = "data_center" -> 8000
                                           [] OTHER -> 2000))]]

-----------------------------------------------------------------------------
(* Specification SpecCity: the grid and traffic services handle up to        *)
(* MaxServed requests, those the executor sends for the commands below and   *)
(* some no executor would send.                                              *)

MaxServed == 3

SeededZones ==
    ("Z1" :> SeededZone("Z1", 100, 60, FALSE)) @@ ("Z2" :> SeededZone("Z2", 100, 95, TRUE))

\* zones a scenario installs through /state/set
InstalledZones(stability) ==
    normalize_zone_data(
        ("Z1" :> [capacity |-> Num(Whole(100)), current_load |-> Num(Whole(60)),
                  stability |-> Num(stability)])
        @@ ("Z2" :> [capacity |-> Num(Whole(100)), current_load |-> Num(Whole(95)),
                     stability |-> Num(stability), is_critical |-> Bool(TRUE)]))

InitialZones == {SeededZones, InstalledZones(Rat(1, 2)), InstalledZones(One)}

InitialSectors ==
    { ("S1" :> SeededSector("S1", Rat(6, 10), FALSE)) @@ ("S2" :> SeededSector("S2", One, FALSE)),
      ("S1" :> SeededSector("S1", Rat(4, 10), FALSE)) @@ ("S2" :> SeededSector("S2", Rat(1, 2), TRUE)) }

\* the commands an agent issues to the grid and traffic services
GridCommands ==
    { Cmd("grid", "adjust_zone", ("zone_id" :> Str("Z1")) @@ ("capacity" :> Num(c))) :
        c \in {Zero, Rat(1, 2), One} }
    \cup { Cmd("grid", "adjust_zone", ("zone_id" :> Str("Z9")) @@ ("capacity" :> Num(One))) }
    \cup { Cmd("grid", "set_priority", ("infrastructure_id" :> Str("hospital")) @@ ("level" :> Str(l))) :
        l \in {"critical", "low"} }

TrafficCommands ==
    { Cmd("traffic", "redirect", ("sector_id" :> Str(s)) @@ ("target_reduction" :> Num(Rat(1, 4)))) :
        s \in {"S1", "S9"} }
    \cup { Cmd("traffic", "redirect", ("sector_id" :> Str("S2")) @@ ("target_reduction" :> Num(Rat(1, 2)))) }
    \cup { Cmd("traffic", "block_route", ("sector" :> Str(s)) @@ ("reason" :> Str("flood"))) :
        s \in {"S1", "S9"} }
    \cup { Cmd("traffic", "block_route",
               ("sector" :> Str("S1")) @@ ("reason" :> Str("flood")) @@ ("duration_minutes" :> d)) :
        d \in {Str("30")} }

\* the requests the executor sends for them, and a priority request of another client
GridRequests ==
    { _execute_prepare(c).request : c \in GridCommands }
    \cup { [port |-> ServicePorts["grid"],
            endpoint |-> [template |-> "/grid/infrastructure/{infrastructure_id}/priority",
                          arg |-> Str("hospital")],
            method |-> "POST", data |-> "level" :> Str("urgent")] }

TrafficRequests == { _execute_prepare(c).request : c \in TrafficCommands }

IsCapacityRequest(r) == r.endpoint.template = EndpointMappings["grid"]["adjust_zone"][1]
IsRedirectRequest(r) == r.endpoint.template = EndpointMappings["traffic"]["redirect"][1]

CityInit ==
    /\ grid_zones \in InitialZones
    /\ critical_infrastructure = DefaultInfrastructure
    /\ traffic_sectors \in InitialSectors
    /\ served = <<>>
    /\ cmd1 = Idle /\ cmd2 = Idle /\ matched = Idle
    /\ state = Idle /\ metrics = Idle /\ lastPower = Idle
    /\ raw = Idle /\ norm1 = Idle /\ norm2 = Idle
    /\ command = Idle /\ execResult = Idle /\ sent = Idle
    /\ issued = Idle /\ scenario = Idle /\ curState = Idle /\ evalResult = Idle
    /\ tasks = Idle /\ converted = Idle /\ agentOut = Idle /\ extracted = Idle
    /\ ctorArgs = Idle /\ constructed = Idle
    /\ emergency_incidents = Idle /\ drone_fleet = Idle /\ otherServices = Idle /\ acceptedCount = Idle /\ firstAccepted = Idle /\ evaluations = Idle
    /\ initial_state = Idle /\ activated = Idle /\ system_status = Idle

Handled(r, code) ==
    [request |-> r, code |-> code, zones |-> grid_zones, sectors |-> traffic_sectors]

\* the grid service handles one request and answers it
ServeGrid(r) ==
    LET answer == _grid_handle(grid_zones, critical_infrastructure, r)
    IN  /\ Len(served) < MaxServed
        /\ grid_zones' = answer.zones
        /\ critical_infrastructure' = answer.infra
        /\ served' = Append(served, Handled(r, answer.code))
        /\ UNCHANGED traffic_sectors
        /\ UNCHANGED <<matchVars, metricVars, normVars, execVars, evalVars, convVars, ctorVars, svcVars, actVars>>

\* the traffic service handles one request and answers it
ServeTraffic(r) ==
    LET answer == _traffic_handle(traffic_sectors, r)
    IN  /\ Len(served) < MaxServed
        /\ traffic_sectors' = answer.sectors
        /\ served' = Append(served, Handled(r, answer.code))
        /\ UNCHANGED <<grid_zones, critical_infrastructure>>
        /\ UNCHANGED <<matchVars, metricVars, normVars, execVars, evalVars, convVars, ctorVars, svcVars, actVars>>

AdjustZoneCapacity == \E r \in GridRequests : IsCapacityRequest(r) /\ ServeGrid(r)
SetPriority == \E r \in GridRequests : ~IsCapacityRequest(r) /\ ServeGrid(r)
RedirectTraffic == \E r \in TrafficRequests : IsRedirectRequest(r) /\ ServeTraffic(r)
BlockRoute == \E r \in TrafficRequests : ~IsRedirectRequest(r) /\ ServeTraffic(r)

CityNext == AdjustZoneCapacity \/ SetPriority \/ RedirectTraffic \/ BlockRoute

SpecCity == CityInit /\ [][CityNext]_vars


\* the globals after the i-th handled request
SectorsAfter(i) == IF i < Len(served) THEN served[i + 1].sectors ELSE traffic_sectors
ZonesAfter(i) == IF i < Len(served) THEN served[i + 1].zones ELSE grid_zones

Congestion(sectors, s) == NumOf(sectors[s]["congestion_level"])

\* the i-th handled request is a redirect for a sector that exists and is not blocked
RedirectOfOpenSector(i) ==
    /\ IsRedirectRequest(served[i].request)
    /\ served[i].request.data["sector_id"].str \in DOMAIN served[i].sectors
    /\ served[i].sectors[served[i].request.data["sector_id"].str]["is_blocked"] = Bool(FALSE)

\* C25: a redirect {sector_id: s, target_reduction: t} sent by the executor for an
\* existing, unblocked sector s leaves congestion_level(s) at the old value times
\* (1 - t) and the congestion of every other sector as it was.
C25_RedirectReduces ==
    \A i \in 1 .. Len(served) :
        RedirectOfOpenSector(i) =>
            LET s == served[i].request.data["sector_id"].str
                t == NumOf(served[i].request.data["target_reduction"])
            IN  /\ Congestion(SectorsAfter(i), s) = RMul(Congestion(served[i].sectors, s), RSub(One, t))
                /\ \A o \in DOMAIN served[i].sectors \ {s} :
                        Congestion(SectorsAfter(i), o) = Congestion(served[i].sectors, o)

\* what the service does: the congestion is halved whatever fraction was commanded
RedirectHalves ==
    \A i \in 1 .. Len(served) :
        RedirectOfOpenSector(i) =>
            LET s == served[i].request.data["sector_id"].str
            IN  /\ served[i].code = 200
                /\ Congestion(SectorsAfter(i), s) = RMul(Congestion(served[i].sectors, s), Rat(1, 2))
                /\ \A o \in DOMAIN served[i].sectors \ {s} :
                        Congestion(SectorsAfter(i), o) = Congestion(served[i].sectors, o)

\* a commanded reduction of a quarter that took half of the congestion away
QuarterCommandedHalfTaken ==
    \E i \in 1 .. Len(served) :
        /\ RedirectOfOpenSector(i)
        /\ served[i].request.data["target_reduction"] = Num(Rat(1, 4))
        /\ served[i].code = 200
        /\ Congestion(served[i].sectors, "S1") # Zero
        /\ Congestion(SectorsAfter(i), "S1") = RMul(Congestion(served[i].sectors, "S1"), Rat(1, 2))


-----------------------------------------------------------------------------
(* Scenario activation: workshop/state_management.py (the client),          *)
(* services/scenario_api.py (the scenario service) and the /state/set and   *)
(* /state/reset handlers of the grid, emergency and traffic services.       *)

\* traffic_api: a sector as normalize_traffic_data files it
_installed_sector(sector_id, sector) ==
    [sector_id |-> Str(sector_id),
     status |-> DictGet(sector, "status", Str("clear")),
     congestion_level |-> DictGet(sector, "congestion", DictGet(sector, "congestion_level", Num(Zero))),
     is_blocked |-> DictGet(sector, "blocked", DictGet(sector, "is_blocked", Bool(FALSE))),
     travel_time_multiplier |-> DictGet(sector, "travel_time_multiplier", Num(One))]

\* traffic_api.normalize_traffic_data, for a body whose sectors are a dict
normalize_traffic_data(body) ==
    IF "traffic" \in DOMAIN body
    THEN [sector_id \in DOMAIN body["traffic"] |-> _installed_sector(sector_id, body["traffic"][sector_id])]
    ELSE IF "sectors" \in DOMAIN body
    THEN [sector_id \in DOMAIN body["sectors"] |-> _installed_sector(sector_id, body["sectors"][sector_id])]
    ELSE EmptyDict

\* POST /state/set of the traffic service: the sectors it holds afterwards
set_traffic_state(sectors, body) ==
    LET normalized == normalize_traffic_data(body)
    IN  IF DOMAIN normalized # {} THEN normalized ELSE sectors

\* POST /state/set of the grid service: the zones it holds afterwards
set_grid_state(zones, body) ==
    IF "zones" \in DOMAIN body THEN normalize_zone_data(body["zones"]) ELSE zones

\* emergency_api: an incident and a drone as normalize_emergency_data files them
_installed_incident(incident_id, incident) ==
    [incident_id |-> incident_id,
     status |-> DictGet(incident, "status", Str("active")),
     type |-> DictGet(incident, "type", Str("unknown")),
     urgency |-> DictGet(incident, "urgency", Str("medium")),
     zone |-> DictGet(incident, "location", DictGet(incident, "zone", Str("unknown"))),
     assigned_drone |-> DictGet(incident, "assigned_drone", None),
     estimated_resolution_minutes |-> DictGet(incident, "estimated_resolution_minutes", Num(Whole(30)))]

_installed_drone(drone_id, drone) ==
    [drone_id |-> drone_id,
     status |-> DictGet(drone, "status", Str("available")),
     capabilities |-> DictGet(drone, "capabilities", EmptyList),
     speed_kph |-> DictGet(drone, "speed", DictGet(drone, "speed_kph", Num(Whole(50)))),
     current_location |-> DictGet(drone, "current_location", Str("base")),
     assigned_incident |-> DictGet(drone, "assigned_incident", None)]

\* the loops over a list: entries without an id are dropped, a later entry replaces an
\* earlier one with the same id
RECURSIVE _install_incidents(_)
_install_incidents(seq) ==
    IF seq = <<>> THEN EmptyDict
    ELSE LET incident == seq[Len(seq)]
             rest == _install_incidents(SubSeq(seq, 1, Len(seq) - 1))
             incident_id == _incident_list_id(incident)
         IN  IF Truthy(incident_id)
             THEN (incident_id.str :> _installed_incident(incident_id, incident)) @@ rest
             ELSE rest

RECURSIVE _install_drones(_)
_install_drones(seq) ==
    IF seq = <<>> THEN EmptyDict
    ELSE LET drone == seq[Len(seq)]
             rest == _install_drones(SubSeq(seq, 1, Len(seq) - 1))
             drone_id == _drone_list_id(drone)
         IN  IF Truthy(drone_id) THEN (drone_id.str :> _installed_drone(drone_id, drone)) @@ rest
             ELSE rest

\* emergency_api.normalize_emergency_data
normalize_emergency_data(body) ==
    [incidents |->
        IF "incidents" \notin DOMAIN body THEN EmptyDict
        ELSE IF IsList(body["incidents"]) THEN _install_incidents(body["incidents"].list)
        ELSE body["incidents"],
     drones |->
        IF "drones" \notin DOMAIN body THEN EmptyDict
        ELSE IF IsList(body["drones"]) THEN _install_drones(body["drones"].list)
        ELSE body["drones"]]

\* POST /state/set of the emergency service: the two globals afterwards
set_emergency_state(incidents, fleet, body) ==
    LET normalized == normalize_emergency_data(body)
    IN  [incidents |-> IF DOMAIN normalized.incidents # {} THEN normalized.incidents ELSE incidents,
         fleet |-> IF DOMAIN normalized.drones # {} THEN normalized.drones ELSE fleet]

\* the bodies the scenario service and manual_state_activation post to /state/set
grid_state(init) == "zones" :> init.zones
emergency_state(init) == ("incidents" :> init.incidents) @@ ("drones" :> init.drones)
traffic_state(init) == "sectors" :> init.traffic

\* the order in which the three services are initialized
ServiceOrder == <<"grid", "emergency", "traffic">>
Services == {"grid", "emergency", "traffic"}

\* what becomes of one /state/set request: answered 200, answered with an error status,
\* lost to a timeout or a connection error, or never sent because an earlier one was lost
SetOutcomes == {"ok", "rejected", "missed", "unsent"}

\* the runs of the three requests: the first lost request ends the sequence
SetRuns ==
    { run \in [Services -> SetOutcomes] :
        \A i \in 1..3 :
            (run[ServiceOrder[i]] = "unsent") <=> (\E j \in 1..(i - 1) : run[ServiceOrder[j]] = "missed") }

\* how the scenario service stands towards the client's two requests: it stores the
\* scenario and finds every service available, it did not store the scenario, one of the
\* services fails its availability check, or it does not answer at all
Situations == {"serving", "unknown_scenario", "service_unavailable", "down"}

\* scenario_api.activate_scenario: the status code of its answer (0: no answer).  Once
\* the scenario is known and every service is available, every run of the three
\* /state/set requests is answered with a dict, that is with 200
_activation_code(situation) ==
    CASE situation = "serving" -> 200
      [] situation = "unknown_scenario" -> 404
      [] situation = "service_unavailable" -> 503
      [] OTHER -> 0

\* state_management.manual_state_activation: what it returns for a run
manual_state_activation(run) ==
    IF \E s \in Services : run[s] = "missed" THEN FALSE
    ELSE Cardinality({s \in Services : run[s] = "ok"}) > 0

\* state_management.activate_scenario: what it returns, given the status code of the
\* scenario service's activation answer (0: no answer)
activate_scenario(activation_code, run) ==
    IF activation_code = 200 THEN TRUE ELSE manual_state_activation(run)

-----------------------------------------------------------------------------
(* Specification SpecActivate: a scenario is activated on services that     *)
(* hold the seeded state or what an earlier scenario left, and the system   *)
(* status is fetched afterwards.                                            *)

\* the entities of a scenario's initial_state, as ServiceState.dict() gives them
ScenarioZone ==
    [id |-> Str("Z7"), name |-> Str("Harbour"), capacity |-> Num(Rat(8, 10)),
     current_load |-> Num(Rat(1, 2)), stability |-> Num(Rat(9, 10)), status |-> Str("online"),
     is_critical |-> Bool(TRUE)]

ScenarioIncident ==
    [id |-> Str("I7"), description |-> Str("fire"), location |-> Str("Z7"),
     urgency |-> Num(Rat(9, 10)), status |-> Str("active"), assigned_drone |-> None]

ScenarioDrone ==
    [id |-> Str("D7"), name |-> Str("Scout"), status |-> Str("available"),
     capabilities |-> [list |-> <<Str("thermal")>>], location |-> Str("Z7"),
     weather_resistant |-> Bool(FALSE), speed |-> Num(One)]

ScenarioSector ==
    [zone_id |-> Str("S7"), congestion |-> Num(Rat(7, 10)), blocked |-> Bool(FALSE),
     description |-> Str("bridge")]

\* the initial states activated: each collection holds one entity or none
InitialStates ==
    { [zones |-> IF z THEN "Z7" :> ScenarioZone ELSE EmptyDict,
       incidents |-> [list |-> IF i THEN <<ScenarioIncident>> ELSE <<>>],
       drones |-> [list |-> IF d THEN <<ScenarioDrone>> ELSE <<>>],
       traffic |-> IF t THEN "S7" :> ScenarioSector ELSE EmptyDict] :
        z \in BOOLEAN, i \in BOOLEAN, d \in BOOLEAN, t \in BOOLEAN }

\* what /state/reset puts into the services
SeededIncidents ==
    "I1" :> [incident_id |-> Str("I1"), type |-> Str("fire"), urgency |-> Str("high"),
             zone |-> Str("Z1"), status |-> Str("active")]
SeededFleet ==
    "D1" :> [drone_id |-> Str("D1"), status |-> Str("available"), speed_kph |-> Num(Whole(60)),
             current_location |-> Str("S1")]
SeededSectors ==
    ("S1" :> SeededSector("S1", Rat(6, 10), FALSE)) @@ ("S2" :> SeededSector("S2", One, FALSE))

\* what an earlier scenario left in the services
LeftZones == InstalledZones(One)
LeftIncidents == "I2" :> _installed_incident(Str("I2"), [id |-> Str("I2"), status |-> Str("resolved")])
LeftFleet == "D2" :> _installed_drone(Str("D2"), [id |-> Str("D2"), status |-> Str("assigned")])
LeftSectors == "S2" :> _installed_sector("S2", [congestion |-> Num(One), blocked |-> Bool(TRUE)])

\* before activate_scenario is called, and before the status is fetched
NotActivated == [pending |-> TRUE]
NotFetched == [pending |-> TRUE]
HasActivated == "returned" \in DOMAIN activated
HasFetched == "normalized" \in DOMAIN system_status

ActivateInit ==
    /\ initial_state \in InitialStates
    /\ \E left \in BOOLEAN :
        /\ grid_zones = IF left THEN LeftZones ELSE SeededZones
        /\ emergency_incidents = IF left THEN LeftIncidents ELSE SeededIncidents
        /\ drone_fleet = IF left THEN LeftFleet ELSE SeededFleet
        /\ traffic_sectors = IF left THEN LeftSectors ELSE SeededSectors
    /\ critical_infrastructure = DefaultInfrastructure
    /\ activated = NotActivated /\ system_status = NotFetched
    /\ cmd1 = Idle /\ cmd2 = Idle /\ matched = Idle
    /\ state = Idle /\ metrics = Idle /\ lastPower = Idle
    /\ raw = Idle /\ norm1 = Idle /\ norm2 = Idle
    /\ command = Idle /\ execResult = Idle /\ sent = Idle
    /\ issued = Idle /\ scenario = Idle /\ curState = Idle /\ evalResult = Idle
    /\ tasks = Idle /\ converted = Idle /\ agentOut = Idle /\ extracted = Idle
    /\ ctorArgs = Idle /\ constructed = Idle
    /\ otherServices = Idle /\ acceptedCount = Idle /\ firstAccepted = Idle /\ evaluations = Idle
    /\ served = Idle

\* activate_scenario as a whole: reset_all_service_states (each reset succeeds or
\* fails), then the three /state/set requests, sent by the scenario service or by
\* manual_state_activation, and the value returned
Activation(situation) ==
    /\ ~HasActivated
    /\ \E reset \in [Services -> BOOLEAN], run \in SetRuns :
        LET zones0 == IF reset["grid"] THEN SeededZones ELSE grid_zones
            infra0 == IF reset["grid"] THEN DefaultInfrastructure ELSE critical_infrastructure
            incidents0 == IF reset["emergency"] THEN SeededIncidents ELSE emergency_incidents
            fleet0 == IF reset["emergency"] THEN SeededFleet ELSE drone_fleet
            sectors0 == IF reset["traffic"] THEN SeededSectors ELSE traffic_sectors
            emergency == set_emergency_state(incidents0, fleet0, emergency_state(initial_state))
            code == _activation_code(situation)
        IN  /\ grid_zones' = IF run["grid"] = "ok"
                              THEN set_grid_state(zones0, grid_state(initial_state)) ELSE zones0
            /\ critical_infrastructure' = infra0
            /\ emergency_incidents' = IF run["emergency"] = "ok" THEN emergency.incidents ELSE incidents0
            /\ drone_fleet' = IF run["emergency"] = "ok" THEN emergency.fleet ELSE fleet0
            /\ traffic_sectors' = IF run["traffic"] = "ok"
                                   THEN set_traffic_state(sectors0, traffic_state(initial_state))
                                   ELSE sectors0
            /\ activated' = [returned |-> activate_scenario(code, run), code |-> code, run |-> run]
    /\ UNCHANGED <<matchVars, metricVars, normVars, execVars, evalVars, convVars, ctorVars>>
    /\ UNCHANGED <<otherServices, acceptedCount, firstAccepted, evaluations, served>>
    /\ UNCHANGED <<initial_state, system_status>>

\* the scenario service answers the activation request with 200
ActivateThroughScenarioService == Activation("serving")

\* the scenario service does not: manual_state_activation sets the states
ActivateManually == \E situation \in Situations \ {"serving"} : Activation(situation)

\* get_system_status, each service answering /state/get or not, and _normalize_state
\* on what it gathered
FetchSystemStatus ==
    /\ HasActivated
    /\ ~HasFetched
    /\ \E answering \in SUBSET Services :
        LET unavailable == "error" :> Str("unavailable")
            status ==
                [grid |-> IF "grid" \in answering
                          THEN ("zones" :> grid_zones) @@ ("infrastructure" :> critical_infrastructure)
                          ELSE unavailable,
                 emergency |-> IF "emergency" \in answering
                               THEN ("incidents" :> emergency_incidents) @@ ("drones" :> drone_fleet)
                               ELSE unavailable,
                 traffic |-> IF "traffic" \in answering THEN "sectors" :> traffic_sectors
                             ELSE unavailable]
        IN  system_status' = [answering |-> answering, normalized |-> _normalize_state(status)]
    /\ UNCHANGED <<matchVars, metricVars, normVars, execVars, evalVars, convVars, ctorVars>>
    /\ UNCHANGED <<svcVars, cityVars>>
    /\ UNCHANGED <<initial_state, activated>>

ActivateNext == ActivateThroughScenarioService \/ ActivateManually \/ FetchSystemStatus

SpecActivate == ActivateInit /\ [][ActivateNext]_vars


\* what it is for a service to hold the scenario's entities
ZonesHeld ==
    /\ DOMAIN grid_zones = DOMAIN initial_state.zones
    /\ \A z \in DOMAIN initial_state.zones :
        /\ grid_zones[z]["capacity_kw"] = initial_state.zones[z].capacity
        /\ grid_zones[z]["current_load_kw"] = initial_state.zones[z].current_load
        /\ grid_zones[z]["stability"] = initial_state.zones[z].stability
        /\ grid_zones[z]["status"] = initial_state.zones[z].status
        /\ grid_zones[z]["is_critical"] = initial_state.zones[z].is_critical

IncidentsHeld ==
    LET listed == initial_state.incidents.list
    IN  /\ DOMAIN emergency_incidents = {listed[i].id.str : i \in 1 .. Len(listed)}
        /\ \A i \in 1 .. Len(listed) :
            /\ emergency_incidents[listed[i].id.str]["status"] = listed[i].status
            /\ emergency_incidents[listed[i].id.str]["urgency"] = listed[i].urgency
            /\ emergency_incidents[listed[i].id.str]["zone"] = listed[i].location

DronesHeld ==
    LET listed == initial_state.drones.list
    IN  /\ DOMAIN drone_fleet = {listed[i].id.str : i \in 1 .. Len(listed)}
        /\ \A i \in 1 .. Len(listed) :
            /\ drone_fleet[listed[i].id.str]["status"] = listed[i].status
            /\ drone_fleet[listed[i].id.str]["capabilities"] = listed[i].capabilities
            /\ drone_fleet[listed[i].id.str]["speed_kph"] = listed[i].speed

SectorsHeld ==
    /\ DOMAIN traffic_sectors = DOMAIN initial_state.traffic
    /\ \A s \in DOMAIN initial_state.traffic :
        /\ traffic_sectors[s]["congestion_level"] = initial_state.traffic[s].congestion
        /\ traffic_sectors[s]["is_blocked"] = initial_state.traffic[s].blocked

ScenarioHeld == ZonesHeld /\ IncidentsHeld /\ DronesHeld /\ SectorsHeld

\* C26: whenever activate_scenario returns True, the grid, emergency and traffic
\* services each hold exactly the scenario's initial state: its zones, its incidents
\* and drones, its traffic sectors, also when a collection of the scenario is empty and
\* when a service rejected or missed its /state/set request.
C26_ActivationEnsuresState ==
    (HasActivated /\ activated.returned) => ScenarioHeld

\* what the code ensures: when every /state/set request was answered with 200, each
\* non-empty collection of the scenario is held by its service, and so are the zones,
\* empty or not
AnsweredCollectionsHeld ==
    (HasActivated /\ \A s \in Services : activated.run[s] = "ok") =>
        /\ activated.returned
        /\ ZonesHeld
        /\ (initial_state.incidents.list # <<>> => IncidentsHeld)
        /\ (initial_state.drones.list # <<>> => DronesHeld)
        /\ (DOMAIN initial_state.traffic # {} => SectorsHeld)

\* every request answered with 200 and True returned, yet the traffic service holds the
\* seeded sectors, not the scenario's empty collection
EmptyTrafficKeepsSeededSectors ==
    /\ HasActivated /\ activated.returned
    /\ \A s \in Services : activated.run[s] = "ok"
    /\ DOMAIN initial_state.traffic = {}
    /\ traffic_sectors = SeededSectors

\* True returned through the scenario service although the grid service rejected its
\* request and holds the seeded zones
RejectedYetActivated ==
    /\ HasActivated /\ activated.returned /\ activated.code = 200
    /\ activated.run["grid"] = "rejected"
    /\ DOMAIN initial_state.zones # {}
    /\ grid_zones = SeededZones

\* True returned by manual_state_activation with one of three requests answered
PartialManualActivation ==
    /\ HasActivated /\ activated.returned /\ activated.code # 200
    /\ activated.run = [grid |-> "ok", emergency |-> "rejected", traffic |-> "rejected"]
    /\ ~SectorsHeld


\* the fetched snapshot has one entry per entity a service holds
ZonesIntact ==
    /\ DOMAIN system_status.normalized.zones = DOMAIN grid_zones
    /\ \A z \in DOMAIN grid_zones :
        system_status.normalized.zones[z]["capacity_kw"] = grid_zones[z]["capacity_kw"]

IncidentsIntact ==
    /\ DOMAIN system_status.normalized.incidents = DOMAIN emergency_incidents
    /\ \A i \in DOMAIN emergency_incidents :
        system_status.normalized.incidents[i]["status"] = emergency_incidents[i]["status"]

DronesIntact ==
    /\ DOMAIN system_status.normalized.drones = DOMAIN drone_fleet
    /\ \A d \in DOMAIN drone_fleet :
        system_status.normalized.drones[d]["status"] = drone_fleet[d]["status"]

TrafficIntact ==
    /\ DOMAIN system_status.normalized.traffic = DOMAIN traffic_sectors
    /\ \A s \in DOMAIN traffic_sectors :
        /\ system_status.normalized.traffic[s]["congestion_level"] = traffic_sectors[s]["congestion_level"]
        /\ system_status.normalized.traffic[s]["is_blocked"] = traffic_sectors[s]["is_blocked"]

\* C27: the snapshot of get_system_status, normalized, has exactly one traffic entry per
\* sector the traffic service holds, keyed by the sector id and carrying its
\* congestion_level and is_blocked, and likewise one zone, incident and drone entry per
\* entity the grid and emergency services hold.
C27_SnapshotIntact ==
    HasFetched =>
        /\ ("traffic" \in system_status.answering => TrafficIntact)
        /\ ("grid" \in system_status.answering => ZonesIntact)
        /\ ("emergency" \in system_status.answering => IncidentsIntact /\ DronesIntact)

\* what holds: the zones, incidents and drones arrive, one entry per entity
GridAndEmergencyIntact ==
    HasFetched =>
        /\ ("grid" \in system_status.answering => ZonesIntact)
        /\ ("emergency" \in system_status.answering => IncidentsIntact /\ DronesIntact)

\* and the traffic service's answer always becomes one entry keyed "sectors", not
\* blocked and without congestion
TrafficAlwaysOnePseudoSector ==
    (HasFetched /\ "traffic" \in system_status.answering) =>
        /\ DOMAIN system_status.normalized.traffic = {"sectors"}
        /\ system_status.normalized.traffic["sectors"]["congestion_level"] = Num(Zero)
        /\ system_status.normalized.traffic["sectors"]["is_blocked"] = Bool(FALSE)

\* a blocked, fully congested sector that the snapshot does not show
BlockedSectorLost ==
    /\ HasFetched /\ system_status.answering = Services
    /\ traffic_sectors = LeftSectors
    /\ DOMAIN system_status.normalized.traffic = {"sectors"}


CapacityKw(zones, z) == NumOf(zones[z]["capacity_kw"])

\* the i-th handled request is an adjust_zone that the grid service accepted
AcceptedAdjust(i) == IsCapacityRequest(served[i].request) /\ served[i].code = 200

AdjustedZone(i) == served[i].request.endpoint.arg.str
AdjustedFraction(i) == NumOf(served[i].request.data["capacity"])

\* C28: adjust_zone with fraction c sets capacity_kw to c times a maximum that
\* adjust_zone never changes: the same request twice in a row leaves capacity_kw at its
\* value after the first, and a later request with fraction 1.0 restores the zone's
\* original capacity, for seeded zones as for zones installed through /state/set.
C28_AdjustIdempotent ==
    /\ \A i \in 1 .. (Len(served) - 1) :
        (AcceptedAdjust(i) /\ AcceptedAdjust(i + 1) /\ served[i + 1].request = served[i].request) =>
            CapacityKw(ZonesAfter(i + 1), AdjustedZone(i)) = CapacityKw(ZonesAfter(i), AdjustedZone(i))
    /\ \A i \in 1 .. Len(served) :
        (AcceptedAdjust(i) /\ AdjustedFraction(i) = One) =>
            CapacityKw(ZonesAfter(i), AdjustedZone(i)) = CapacityKw(served[1].zones, AdjustedZone(i))

\* what holds: a zone that carries max_capacity_kw, as every zone installed through
\* /state/set does, gets that maximum times the fraction, and the maximum stays
InstalledZonesIdempotent ==
    \A i \in 1 .. Len(served) :
        (AcceptedAdjust(i) /\ "max_capacity_kw" \in DOMAIN served[i].zones[AdjustedZone(i)]) =>
            /\ ZonesAfter(i)[AdjustedZone(i)]["max_capacity_kw"] =
                    served[1].zones[AdjustedZone(i)]["max_capacity_kw"]
            /\ CapacityKw(ZonesAfter(i), AdjustedZone(i)) =
                    RMul(NumOf(served[1].zones[AdjustedZone(i)]["max_capacity_kw"]), AdjustedFraction(i))

\* and a seeded zone gets its current capacity times the fraction
SeededZonesCompound ==
    \A i \in 1 .. Len(served) :
        (AcceptedAdjust(i) /\ "max_capacity_kw" \notin DOMAIN served[i].zones[AdjustedZone(i)]) =>
            CapacityKw(ZonesAfter(i), AdjustedZone(i)) =
                RMul(CapacityKw(served[i].zones, AdjustedZone(i)), AdjustedFraction(i))

\* a seeded zone of 100 kW halved twice: 25 kW
HalvedTwice ==
    /\ Len(served) >= 2
    /\ AcceptedAdjust(1) /\ served[2].request = served[1].request
    /\ AdjustedFraction(1) = Rat(1, 2)
    /\ served[1].zones = SeededZones
    /\ CapacityKw(ZonesAfter(2), "Z1") = Whole(25)

\* a seeded zone halved and then set to fraction 1.0: 50 kW, not the original 100
NotRestored ==
    /\ Len(served) >= 2
    /\ AcceptedAdjust(1) /\ AdjustedFraction(1) = Rat(1, 2)
    /\ AcceptedAdjust(2) /\ AdjustedFraction(2) = One
    /\ served[1].zones = SeededZones
    /\ CapacityKw(ZonesAfter(2), "Z1") = Whole(50)


\* every stability and every congestion_level the two services hold is in [0,1]
RangesKept ==
    /\ \A z \in DOMAIN grid_zones :
        "stability" \in DOMAIN grid_zones[z] => InUnit(NumOf(grid_zones[z]["stability"]))
    /\ \A s \in DOMAIN traffic_sectors : InUnit(Congestion(traffic_sectors, s))

\* the i-th handled request was not accepted
Rejected(i) == served[i].code # 200

RejectedChangesNothing ==
    \A i \in 1 .. Len(served) :
        Rejected(i) => ZonesAfter(i) = served[i].zones /\ SectorsAfter(i) = served[i].sectors

\* C29: from a state with every zone stability and every sector congestion_level in
\* [0,1], after any sequence of adjust_zone, set_priority, redirect and block_route
\* requests, accepted or rejected, every stability and congestion_level is still in
\* [0,1], and a rejected request changes no zone or sector.
C29_RangesPreserved == RangesKept /\ RejectedChangesNothing

\* what holds of rejected requests: those of the grid service, the redirects, and the
\* block_route requests refused with 400 or 404 change nothing
RefusedChangesNothing ==
    \A i \in 1 .. Len(served) :
        (Rejected(i) /\ served[i].code # 500) =>
            ZonesAfter(i) = served[i].zones /\ SectorsAfter(i) = served[i].sectors

\* a block_route answered with 500 that left its sector blocked
BlockedByFailedRequest ==
    \E i \in 1 .. Len(served) :
        /\ served[i].code = 500
        /\ served[i].request.data["duration_minutes"] = Str("30")
        /\ served[i].sectors["S1"]["is_blocked"] = Bool(FALSE)
        /\ SectorsAfter(i)["S1"]["is_blocked"] = Bool(TRUE)


\* the threshold metrics of the result's metric_progress
ThresholdEntries ==
    {n \in DOMAIN evalResult.value.metric_progress :
        _evaluation_config(scenario).value.metrics[n].type = THRESHOLD}

\* C30: in every evaluation result, for every threshold metric, achieved is true if and
\* only if progress equals 1.0, for every current value in [0,1] and every target the
\* configuration accepts, a target of 0 included.
C30_ProgressAgreesWithAchieved ==
    HasReturned(evalResult) =>
        \A n \in ThresholdEntries :
            evalResult.value.metric_progress[n].achieved
                <=> (evalResult.value.metric_progress[n].progress = One)

\* what holds: the two agree for every target above 0, and progress 1.0 always means
\* achieved
AgreeForPositiveTargets ==
    HasReturned(evalResult) =>
        \A n \in ThresholdEntries :
            LET entry == evalResult.value.metric_progress[n]
            IN  /\ (entry.progress = One => entry.achieved)
                /\ (RLt(Zero, NumOf(entry.target)) => (entry.achieved <=> (entry.progress = One)))

\* for a target of 0 or below, the metric is achieved and its progress is at most 0
AchievedWithoutProgress ==
    HasReturned(evalResult) =>
        \A n \in ThresholdEntries :
            LET entry == evalResult.value.metric_progress[n]
            IN  RLe(NumOf(entry.target), Zero) => entry.achieved /\ RLe(entry.progress, Zero)

\* a result whose grid_stability target is 0: achieved, progress 0
ZeroTargetAchieved ==
    /\ HasReturned(evalResult)
    /\ "grid_stability" \in ThresholdEntries
    /\ evalResult.value.metric_progress["grid_stability"].target = Num(Zero)
    /\ evalResult.value.metric_progress["grid_stability"].achieved
    /\ evalResult.value.metric_progress["grid_stability"].progress = Zero

====
